---- MODULE Spec2Model ----
(***************************************************************************)
(* A model of lambda_creator: the parameter validators                     *)
(* (utils/validators.py), the Function Manager's create operation          *)
(* (lambda_creator.py) and the role provisioning it drives                 *)
(* (lambda_role.py).                                                       *)
(*                                                                         *)
(* A Python str is a sequence of one-character strings, a dict is a        *)
(* function whose domain is its key set, a list is a sequence, and an      *)
(* Optional value is None (the empty tuple) or Some(v) (the 1-tuple).      *)
(***************************************************************************)
EXTENDS Integers, Sequences, FiniteSets, TLC

VARIABLES
    pc,      \* position of the running operation
    op,      \* the operation the caller invoked
    args,    \* its arguments, as the caller passed them
    ret,     \* what it returned or raised
    calls,   \* the control-plane calls issued so far, oldest first
    locals,  \* the operation's local variables
    now      \* the wall clock, in whole seconds (time.time())

vars == <<pc, op, args, ret, calls, locals, now>>

(***************************************************************************)
(* Bounds of the model.                                                    *)
(***************************************************************************)
\* longest run of one repeated character at the head of an input string
MaxPrefix == 65
\* longest free tail over InputAlphabet appended to that run
MaxTail == 2
\* most entries of an environment mapping
MaxEnvEntries == 2
\* most ids in a subnet or security-group list
MaxIds == 1
\* the wall clock when the run starts
StartTime == 1700000000

(***************************************************************************)
(* Python values.                                                          *)
(***************************************************************************)
None == <<>>
Some(v) == <<v>>
IsNone(x) == x = <<>>
Get(x) == x[1]
\* a parameter with a default value: the argument when passed, else the default
Default(x, d) == IF IsNone(x) THEN d ELSE Get(x)

Rep(c, n) == [i \in 1..n |-> c]

RECURSIVE SeqsUpTo(_, _)
SeqsUpTo(S, n) ==
    IF n = 0 THEN {<<>>}
    ELSE LET shorter == SeqsUpTo(S, n - 1)
         IN  shorter \cup {Append(s, c) : s \in {t \in shorter : Len(t) = n - 1}, c \in S}

\* the dicts with at most n keys drawn from K and values drawn from V
DictsUpTo(K, V, n) ==
    UNION {[D -> V] : D \in {D \in SUBSET K : Cardinality(D) <= n}}

Lower == {"a","b","c","d","e","f","g","h","i","j","k","l","m",
          "n","o","p","q","r","s","t","u","v","w","x","y","z"}
Upper == {"A","B","C","D","E","F","G","H","I","J","K","L","M",
          "N","O","P","Q","R","S","T","U","V","W","X","Y","Z"}
Digit == {"0","1","2","3","4","5","6","7","8","9"}

(***************************************************************************)
(* utils/validators.py                                                     *)
(***************************************************************************)
FunctionNameChars == Lower \cup Upper \cup Digit \cup {"-", "_"}
RoleNameChars == Lower \cup Upper \cup Digit \cup {"+", "=", ",", ".", "@", "-", "_"}
RepositoryNameChars == Lower \cup Upper \cup Digit \cup {"-", "_", "/"}
ImageTagChars == Lower \cup Upper \cup Digit \cup {"-", "_", ".", "+"}
EnvKeyFirstChars == Lower \cup Upper
EnvKeyRestChars == Lower \cup Upper \cup Digit \cup {"_"}

\* Python's "$" (no MULTILINE flag) matches at the end of the string and also
\* just before a newline that is the string's last character.
AtDollar(s, k) ==
    \/ k = Len(s)
    \/ k = Len(s) - 1 /\ s[Len(s)] = "\n"

\* re.match(r'^[cls]+$', s)
MatchClassPlus(cls, s) ==
    \E k \in 1..Len(s) :
        /\ \A i \in 1..k : s[i] \in cls
        /\ AtDollar(s, k)

\* re.match(r'^[first][rest]*$', s)
MatchFirstRest(first, rest, s) ==
    \E k \in 1..Len(s) :
        /\ s[1] \in first
        /\ \A i \in 2..k : s[i] \in rest
        /\ AtDollar(s, k)

validate_function_name(function_name) ==
    IF Len(function_name) = 0 THEN FALSE
    ELSE IF Len(function_name) > 64 THEN FALSE
    ELSE MatchClassPlus(FunctionNameChars, function_name)

validate_role_name(role_name) ==
    IF Len(role_name) = 0 THEN FALSE
    ELSE IF Len(role_name) > 64 THEN FALSE
    ELSE MatchClassPlus(RoleNameChars, role_name)

validate_ecr_repository_name(repository_name) ==
    IF Len(repository_name) = 0 THEN FALSE
    ELSE IF Len(repository_name) < 2 \/ Len(repository_name) > 256 THEN FALSE
    ELSE MatchClassPlus(RepositoryNameChars, repository_name)

validate_image_tag(image_tag) ==
    IF Len(image_tag) = 0 THEN FALSE
    ELSE IF Len(image_tag) > 128 THEN FALSE
    ELSE MatchClassPlus(ImageTagChars, image_tag)

\* mutant: the upper limit taken as exclusive
validate_memory_size_exclusive_max(memory_size) ==
    IF memory_size < 128 \/ memory_size >= 10240 THEN FALSE
    ELSE memory_size % 64 = 0

validate_memory_size(memory_size) ==
    IF memory_size < 128 \/ memory_size > 10240 THEN FALSE
    ELSE memory_size % 64 = 0

\* mutant: the lower limit off by one
validate_timeout_from_zero(timeout) ==
    0 <= timeout /\ timeout <= 900

validate_timeout(timeout) ==
    1 <= timeout /\ timeout <= 900

\* sum(len(key) + len(str(value)) for key, value in env_vars.items())
RECURSIVE SumSizes(_, _)
SumSizes(d, keys) ==
    IF keys = {} THEN 0
    ELSE LET k == CHOOSE x \in keys : TRUE
         IN  Len(k) + Len(d[k]) + SumSizes(d, keys \ {k})

total_size(env_vars) == SumSizes(env_vars, DOMAIN env_vars)

\* mutant: the empty mapping rejected, as validate_vpc_config rejects it
validate_environment_variables_rejects_empty(env_vars) ==
    IF DOMAIN env_vars = {} THEN FALSE
    ELSE IF \E key \in DOMAIN env_vars :
                Len(key) = 0 \/ ~MatchFirstRest(EnvKeyFirstChars, EnvKeyRestChars, key)
         THEN FALSE
    ELSE total_size(env_vars) <= 4096

\* env_vars is a dict here; the composite never passes None on (a falsy
\* argument short-circuits there)
validate_environment_variables(env_vars) ==
    IF DOMAIN env_vars = {} THEN TRUE
    ELSE IF \E key \in DOMAIN env_vars :
                Len(key) = 0 \/ ~MatchFirstRest(EnvKeyFirstChars, EnvKeyRestChars, key)
         THEN FALSE
    ELSE total_size(env_vars) <= 4096

validate_tags(tags) ==
    IF DOMAIN tags = {} THEN TRUE
    ELSE IF \E key \in DOMAIN tags :
                Len(key) = 0 \/ Len(key) > 128 \/ Len(tags[key]) > 256
         THEN FALSE
    ELSE TRUE

\* mutant: only a config with both lists empty rejected
validate_vpc_config_both_empty(vpc_config) ==
    IF IsNone(vpc_config) THEN TRUE
    ELSE LET c == Get(vpc_config) IN
         IF DOMAIN c = {} THEN FALSE
         ELSE IF "SubnetIds" \notin DOMAIN c \/ "SecurityGroupIds" \notin DOMAIN c THEN FALSE
         ELSE IF Len(c["SubnetIds"]) = 0 /\ Len(c["SecurityGroupIds"]) = 0 THEN FALSE
         ELSE TRUE

\* vpc_config is Optional here: None, or Some(dict of lists)
validate_vpc_config(vpc_config) ==
    IF IsNone(vpc_config) THEN TRUE
    ELSE LET c == Get(vpc_config) IN
         IF DOMAIN c = {} THEN FALSE
         ELSE IF "SubnetIds" \notin DOMAIN c \/ "SecurityGroupIds" \notin DOMAIN c THEN FALSE
         ELSE IF Len(c["SubnetIds"]) = 0 \/ Len(c["SecurityGroupIds"]) = 0 THEN FALSE
         ELSE TRUE

MsgFunctionName == "Invalid function name. Function names must be at most 64 characters and can contain only letters, numbers, hyphens, and underscores."
MsgRepositoryName == "Invalid ECR repository name. Repository names must be 2-256 characters and can contain only letters, numbers, hyphens, underscores, and forward slashes."
MsgRoleName == "Invalid role name. Role names must be at most 64 characters and can contain only letters, numbers, and the following characters: +=,.@-_"
MsgImageTag == "Invalid image tag. Image tags must be at most 128 characters and can contain only letters, numbers, hyphens, underscores, periods, and plus signs."
MsgMemorySize == "Invalid memory size. Memory size must be between 128 MB and 10240 MB (10 GB) and must be a multiple of 64 MB."
MsgTimeout == "Invalid timeout. Timeout must be between 1 second and 900 seconds (15 minutes)."
MsgEnvironment == "Invalid environment variables. Keys must start with a letter and contain only letters, numbers, and underscores. Total size cannot exceed 4 KB."
MsgTags == "Invalid tags. Tag keys must be 1-128 characters. Tag values can be up to 256 characters."
MsgVpcConfig == "Invalid VPC configuration. VPC configuration must include subnet IDs and security group IDs."
MsgValid == "All parameters are valid."

Invalid(message) == [valid |-> FALSE, message |-> message]

\* Python truthiness of an Optional[str], an Optional[dict]
TruthyStr(x) == ~IsNone(x) /\ Len(Get(x)) > 0
TruthyDict(x) == ~IsNone(x) /\ DOMAIN Get(x) # {}

\* role_name, environment_variables, tags and vpc_config are Optional
validate_input_parameters(function_name, ecr_repository_name, role_name, image_tag, memory_size, timeout, environment_variables, tags, vpc_config) ==
    IF ~validate_function_name(function_name) THEN Invalid(MsgFunctionName)
    ELSE IF ~validate_ecr_repository_name(ecr_repository_name) THEN Invalid(MsgRepositoryName)
    ELSE IF TruthyStr(role_name) /\ ~validate_role_name(Get(role_name)) THEN Invalid(MsgRoleName)
    ELSE IF ~validate_image_tag(image_tag) THEN Invalid(MsgImageTag)
    ELSE IF ~validate_memory_size(memory_size) THEN Invalid(MsgMemorySize)
    ELSE IF ~validate_timeout(timeout) THEN Invalid(MsgTimeout)
    ELSE IF TruthyDict(environment_variables)
            /\ ~validate_environment_variables(Get(environment_variables))
         THEN Invalid(MsgEnvironment)
    ELSE IF TruthyDict(tags) /\ ~validate_tags(Get(tags)) THEN Invalid(MsgTags)
    ELSE IF TruthyDict(vpc_config) /\ ~validate_vpc_config(vpc_config) THEN Invalid(MsgVpcConfig)
    ELSE [valid |-> TRUE, message |-> MsgValid]

\* the defaults of validate_input_parameters' and create's keyword parameters
DefaultImageTag == <<"l","a","t","e","s","t">>
DefaultMemorySize == 128
DefaultTimeout == 30
DefaultDescription == <<>>

(***************************************************************************)
(* The state before any operation is invoked.                              *)
(***************************************************************************)
NoValue == [kind |-> "none"]
Return(v) == [kind |-> "return", value |-> v]

Init ==
    /\ pc = "idle"
    /\ op = "none"
    /\ args = NoValue
    /\ ret = NoValue
    /\ calls = <<>>
    /\ locals = NoValue
    /\ now = StartTime

(***************************************************************************)
(* The validators, each called on its own.  The caller's inputs are drawn  *)
(* from bounded sets that reach every branch and both sides of every       *)
(* limit.                                                                  *)
(***************************************************************************)
InputAlphabet == {"a", "Z", "9", "-", "_", ".", " ", "\n"}

\* a (possibly empty) run of one valid character followed by a free tail
NameInputs ==
    {Rep("a", n) \o t : n \in 0..MaxPrefix, t \in SeqsUpTo(InputAlphabet, MaxTail)}

MaxMemoryInput == 10305
MemoryInputs == (0 - MaxMemoryInput)..MaxMemoryInput

MaxTimeoutInput == 902
TimeoutInputs == (0 - MaxTimeoutInput)..MaxTimeoutInput

EnvKeyInputs ==
    { <<"K","E","Y","1">>, <<"K","E","Y","_">>, <<"A","\n">>,
      <<"1","E">>, <<"E","-","V">>, <<>> }
\* "U+00E9" stands for one non-ASCII character (two bytes in UTF-8)
EnvValueInputs ==
    {Rep("v", n) : n \in {0, 2044, 2045, 4092, 4093}} \cup {Rep("U+00E9", 2047)}
EnvInputs == DictsUpTo(EnvKeyInputs, EnvValueInputs, MaxEnvEntries)

IdListInputs == SeqsUpTo({"id-1", "id-2"}, MaxIds)
VpcInputs ==
    {None} \cup
    {Some(c) : c \in UNION {[D -> IdListInputs] :
                            D \in SUBSET {"SubnetIds", "SecurityGroupIds", "Ipv6AllowedForDualStack"}}}

Call_validate_function_name ==
    /\ pc = "idle"
    /\ \E function_name \in NameInputs :
        /\ args' = [function_name |-> function_name]
        /\ ret' = Return(validate_function_name(function_name))
    /\ op' = "validate_function_name"
    /\ pc' = "returned"
    /\ UNCHANGED <<calls, locals, now>>

Call_validate_memory_size ==
    /\ pc = "idle"
    /\ \E memory_size \in MemoryInputs :
        /\ args' = [memory_size |-> memory_size]
        /\ ret' = Return(validate_memory_size(memory_size))
    /\ op' = "validate_memory_size"
    /\ pc' = "returned"
    /\ UNCHANGED <<calls, locals, now>>

Call_validate_timeout ==
    /\ pc = "idle"
    /\ \E timeout \in TimeoutInputs :
        /\ args' = [timeout |-> timeout]
        /\ ret' = Return(validate_timeout(timeout))
    /\ op' = "validate_timeout"
    /\ pc' = "returned"
    /\ UNCHANGED <<calls, locals, now>>

Call_validate_environment_variables ==
    /\ pc = "idle"
    /\ \E env_vars \in EnvInputs :
        /\ args' = [env_vars |-> env_vars]
        /\ ret' = Return(validate_environment_variables(env_vars))
    /\ op' = "validate_environment_variables"
    /\ pc' = "returned"
    /\ UNCHANGED <<calls, locals, now>>

Call_validate_vpc_config ==
    /\ pc = "idle"
    /\ \E vpc_config \in VpcInputs :
        /\ args' = [vpc_config |-> vpc_config]
        /\ ret' = Return(validate_vpc_config(vpc_config))
    /\ op' = "validate_vpc_config"
    /\ pc' = "returned"
    /\ UNCHANGED <<calls, locals, now>>

(***************************************************************************)
(* The composite validator, called with one candidate per kind of value a  *)
(* field can take: absent, falsy, accepted by its rule, rejected by it.    *)
(***************************************************************************)
ParamFunctionNames == { <<"f","n">>, <<"f"," ","n">> }
ParamRepositoryNames == { <<"r","e">>, <<"r">> }
ParamRoleNames == { None, Some(<<>>), Some(<<"r","o">>), Some(<<"r"," ","o">>) }
ParamImageTags == { None, Some(<<"a","/","b">>) }
ParamMemorySizes == { None, Some(100) }
ParamTimeouts == { None, Some(1000) }
ParamEnvironments ==
    { None, Some(<<>>), Some(<<"E">> :> <<"p">>), Some(<<"1","E">> :> <<"p">>) }
ParamTags ==
    { None, Some(<<>>), Some(<<"e">> :> <<"p">>), Some(<<>> :> <<"v">>) }
ParamVpcConfigs ==
    { None, Some(<<>>),
      Some([SubnetIds |-> <<"id-1">>, SecurityGroupIds |-> <<"id-2">>]),
      Some([SubnetIds |-> <<>>, SecurityGroupIds |-> <<"id-2">>]) }

ParamInputs ==
    [ function_name : ParamFunctionNames,
      ecr_repository_name : ParamRepositoryNames,
      role_name : ParamRoleNames,
      image_tag : ParamImageTags,
      memory_size : ParamMemorySizes,
      timeout : ParamTimeouts,
      environment_variables : ParamEnvironments,
      tags : ParamTags,
      vpc_config : ParamVpcConfigs ]

Call_validate_input_parameters ==
    /\ pc = "idle"
    /\ \E a \in ParamInputs :
        /\ args' = a
        /\ ret' = Return(validate_input_parameters(
                      a.function_name, a.ecr_repository_name, a.role_name,
                      Default(a.image_tag, DefaultImageTag),
                      Default(a.memory_size, DefaultMemorySize),
                      Default(a.timeout, DefaultTimeout),
                      a.environment_variables, a.tags, a.vpc_config))
    /\ op' = "validate_input_parameters"
    /\ pc' = "returned"
    /\ UNCHANGED <<calls, locals, now>>

NextValidators ==
    \/ Call_validate_function_name
    \/ Call_validate_memory_size
    \/ Call_validate_timeout
    \/ Call_validate_environment_variables
    \/ Call_validate_vpc_config
    \/ Call_validate_input_parameters

SpecValidators == Init /\ [][NextValidators]_vars

(***************************************************************************)
(* The control plane.  Every call is answered by a response or by a        *)
(* ClientError; which one is the control plane's choice.                   *)
(***************************************************************************)
Ok(body) == [kind |-> "ok", body |-> body]
Err(code) == [kind |-> "error", code |-> code]

Raise(e) == [kind |-> "raise", error |-> e]
ClientError(code) == [type |-> "ClientError", code |-> code]
ValueError(message) == [type |-> "ValueError", message |-> message]

\* d.get(key, default)
DictGet(d, key, default) == IF key \in DOMAIN d THEN d[key] ELSE default
\* d.get(key), an Optional
OptGet(d, key) == IF key \in DOMAIN d THEN Some(d[key]) ELSE None

\* the log with one more call and its outcome
Issue(api, params, outcome) ==
    Append(calls, [api |-> api, params |-> params, outcome |-> outcome])

\* the positions in the log of the calls to api
CallsTo(api) == {i \in 1..Len(calls) : calls[i].api = api}

\* 123.dkr.ecr.r.amazonaws.com/repo
RepositoryUri ==
    <<"1","2","3",".","d","k","r",".","e","c","r",".","r",".","a","m","a","z","o","n",
      "a","w","s",".","c","o","m","/","r","e","p","o">>

DescribeRepositoriesOutcomes ==
    { Ok([repositories |-> <<[repositoryUri |-> RepositoryUri]>>]),
      Ok([repositories |-> <<>>]),
      Ok(<<>>),
      Err("RepositoryNotFoundException"),
      Err("AccessDeniedException") }

ExistingRoleArn == "arn:aws:iam::123456789012:role/existing"
CreatedRoleArn == "arn:aws:iam::123456789012:role/created"
\* arn:aws:iam::123456789012:policy/created
CreatedPolicyArn ==
    <<"a","r","n",":","a","w","s",":","i","a","m",":",":","1","2","3","4","5","6","7","8","9","0","1","2",":","p","o","l","i","c","y","/","c","r","e","a","t","e","d">>
\* arn:aws:iam::aws:policy/service-role/AWSLambdaBasicExecutionRole
BasicExecutionPolicyArn ==
    <<"a","r","n",":","a","w","s",":","i","a","m",":",":","a","w","s",":","p","o","l","i","c","y","/","s","e","r","v","i","c","e","-","r","o","l","e","/","A","W","S","L","a","m","b","d","a","B","a","s","i","c","E","x","e","c","u","t","i","o","n","R","o","l","e">>

GetRoleOutcomes ==
    { Ok([Role |-> [Arn |-> ExistingRoleArn]]),
      Ok(<<>>),
      Err("NoSuchEntity"),
      Err("AccessDenied") }
CreateRoleOutcomes == { Ok([Role |-> [Arn |-> CreatedRoleArn]]), Err("EntityAlreadyExists") }
AttachRolePolicyOutcomes == { Ok(<<>>), Err("LimitExceeded") }
CreatePolicyOutcomes == { Ok([Policy |-> [Arn |-> CreatedPolicyArn]]), Err("MalformedPolicyDocument") }
CreateFunctionOutcomes ==
    { Ok([FunctionArn |-> "arn:aws:lambda:r:123456789012:function:1", State |-> "Pending"]),
      Ok([FunctionArn |-> "arn:aws:lambda:r:123456789012:function:2", State |-> "Active"]),
      Err("ResourceConflictException") }

(***************************************************************************)
(* lambda_creator.py: LambdaCreator.create_lambda_from_ecr and the         *)
(* convenience function create_lambda_function, one step per call that     *)
(* leaves the process.                                                     *)
(***************************************************************************)
DecimalDigits == <<"0","1","2","3","4","5","6","7","8","9">>

\* str(n) of a natural number
RECURSIVE IntToStr(_)
IntToStr(n) ==
    IF n < 10 THEN <<DecimalDigits[n + 1]>>
    ELSE Append(IntToStr(n \div 10), DecimalDigits[(n % 10) + 1])

\* mutant: RepositoryNotFoundException re-raised like any other error
_get_ecr_repository_uri_reraises(outcome) ==
    IF outcome.kind = "error"
    THEN Raise(ClientError(outcome.code))
    ELSE LET repositories == DictGet(outcome.body, "repositories", <<>>) IN
         IF Len(repositories) > 0
         THEN Return(OptGet(repositories[1], "repositoryUri"))
         ELSE Return(None)

\* _get_ecr_repository_uri, given what describe_repositories answered
_get_ecr_repository_uri(outcome) ==
    IF outcome.kind = "error"
    THEN IF outcome.code = "RepositoryNotFoundException"
         THEN Return(None)
         ELSE Raise(ClientError(outcome.code))
    ELSE LET repositories == DictGet(outcome.body, "repositories", <<>>) IN
         IF Len(repositories) > 0
         THEN Return(OptGet(repositories[1], "repositoryUri"))
         ELSE Return(None)

\* mutant: every failure of get_role taken for a missing role
_get_role_arn_swallows(outcome) ==
    IF outcome.kind = "error"
    THEN Return(None)
    ELSE Return(OptGet(DictGet(outcome.body, "Role", <<>>), "Arn"))

\* _get_role_arn, given what get_role answered
_get_role_arn(outcome) ==
    IF outcome.kind = "error"
    THEN IF outcome.code = "NoSuchEntity"
         THEN Return(None)
         ELSE Raise(ClientError(outcome.code))
    ELSE Return(OptGet(DictGet(outcome.body, "Role", <<>>), "Arn"))

\* Python truthiness of an Optional ARN (an opaque string)
TruthyArn(x) == ~IsNone(x) /\ Get(x) # ""

\* f"{function_name}-role-{int(time.time())}"
GeneratedRoleName(function_name, time) ==
    function_name \o <<"-","r","o","l","e","-">> \o IntToStr(time)

\* mutant: the caller's tag ignored
ImageUriLatest(ecr_repo_uri, image_tag) ==
    ecr_repo_uri \o <<":">> \o DefaultImageTag

\* f"{ecr_repo_uri}:{image_tag}"
ImageUri(ecr_repo_uri, image_tag) ==
    ecr_repo_uri \o <<":">> \o image_tag

\* the keyword arguments of create_function
create_params(l) ==
    LET environment ==
            IF TruthyDict(l.environment_variables)
            THEN Some([Variables |-> Get(l.environment_variables)])
            ELSE None
        lambda_tags == IF TruthyDict(l.tags) THEN Get(l.tags) ELSE <<>>
        image_uri == ImageUri(l.ecr_repo_uri, l.image_tag)
    IN  [ FunctionName |-> l.function_name,
          Role |-> l.role_arn,
          PackageType |-> "Image",
          Code |-> [ImageUri |-> image_uri],
          Description |-> l.description,
          Timeout |-> l.timeout,
          MemorySize |-> l.memory_size,
          Tags |-> lambda_tags ]
        @@ (IF ~IsNone(environment) THEN [Environment |-> Get(environment)] ELSE <<>>)
        @@ (IF TruthyDict(l.vpc_config) THEN [VpcConfig |-> Get(l.vpc_config)] ELSE <<>>)

CreateInputs ==
    [ function_name : { <<"f","n">>, <<"f"," ","n">> },
      ecr_repository_name : { <<"r","e","p","o">> },
      role_name : { None, Some(<<>>), Some(<<"r","o">>) },
      image_tag : { None, Some(<<"v","1">>), Some(<<"a",":","b">>) },
      memory_size : { None, Some(100) },
      timeout : { None, Some(60) },
      environment_variables : { None, Some(<<>>), Some(<<"E">> :> <<"p">>) },
      description : { None, Some(<<"d">>) },
      tags : { None, Some(<<"e">> :> <<"p">>) },
      vpc_config : { None, Some(<<>>),
                     Some([SubnetIds |-> <<"id-1">>, SecurityGroupIds |-> <<"id-2">>]) } ]

\* the parameters as bound on entry (defaults filled in) and the locals, not
\* yet assigned
CreateLocals(a) ==
    [ function_name |-> a.function_name,
      ecr_repository_name |-> a.ecr_repository_name,
      role_name |-> a.role_name,
      image_tag |-> Default(a.image_tag, DefaultImageTag),
      memory_size |-> Default(a.memory_size, DefaultMemorySize),
      timeout |-> Default(a.timeout, DefaultTimeout),
      environment_variables |-> a.environment_variables,
      description |-> Default(a.description, DefaultDescription),
      tags |-> a.tags,
      vpc_config |-> a.vpc_config,
      ecr_repo_uri |-> None,
      role_arn |-> "",
      generated_role_name |-> None,
      create_role_response |-> <<>> ]

CreateOps == {"create_lambda_from_ecr", "create_lambda_function"}

Call_create_lambda_from_ecr ==
    /\ pc = "idle"
    /\ \E a \in CreateInputs :
        /\ args' = a
        /\ locals' = CreateLocals(a)
    /\ op' = "create_lambda_from_ecr"
    /\ pc' = "describe_repositories"
    /\ UNCHANGED <<ret, calls, now>>

\* constructs a LambdaCreator (no call leaves the process) and delegates
Call_create_lambda_function ==
    /\ pc = "idle"
    /\ \E a \in CreateInputs :
        /\ args' = a
        /\ locals' = CreateLocals(a)
    /\ op' = "create_lambda_function"
    /\ pc' = "describe_repositories"
    /\ UNCHANGED <<ret, calls, now>>

Fail(e) ==
    /\ ret' = Raise(e)
    /\ pc' = "raised"

Create_describe_repositories ==
    /\ pc = "describe_repositories"
    /\ op \in CreateOps
    /\ \E outcome \in DescribeRepositoriesOutcomes :
        /\ calls' = Issue("describe_repositories",
                          [repositoryNames |-> <<locals.ecr_repository_name>>], outcome)
        /\ LET r == _get_ecr_repository_uri(outcome) IN
           IF r.kind = "raise"
           THEN Fail(r.error) /\ UNCHANGED locals
           ELSE IF ~TruthyStr(r.value)
           THEN /\ Fail(ValueError(<<"ECR repository ", locals.ecr_repository_name, " not found">>))
                /\ UNCHANGED locals
           ELSE IF TruthyStr(locals.role_name)
           THEN /\ locals' = [locals EXCEPT !.ecr_repo_uri = Get(r.value)]
                /\ pc' = "get_role"
                /\ UNCHANGED ret
           ELSE /\ locals' = [locals EXCEPT
                                 !.ecr_repo_uri = Get(r.value),
                                 !.generated_role_name =
                                     GeneratedRoleName(locals.function_name, now)]
                /\ pc' = "create_role"
                /\ UNCHANGED ret
    /\ UNCHANGED <<op, args, now>>

Create_get_role ==
    /\ pc = "get_role"
    /\ op \in CreateOps
    /\ \E outcome \in GetRoleOutcomes :
        /\ calls' = Issue("get_role", [RoleName |-> Get(locals.role_name)], outcome)
        /\ LET r == _get_role_arn(outcome) IN
           IF r.kind = "raise"
           THEN Fail(r.error) /\ UNCHANGED locals
           ELSE IF ~TruthyArn(r.value)
           THEN /\ Fail(ValueError(<<"IAM role ", Get(locals.role_name), " not found">>))
                /\ UNCHANGED locals
           ELSE /\ locals' = [locals EXCEPT !.role_arn = Get(r.value)]
                /\ pc' = "create_function"
                /\ UNCHANGED ret
    /\ UNCHANGED <<op, args, now>>

(***************************************************************************)
(* lambda_role.py: create_lambda_role and attach_s3_policy, as create and   *)
(* create_lambda_role_with_s3_access drive them, and create_lambda_role    *)
(* called on its own.  locals.generated_role_name is their role_name.      *)
(***************************************************************************)
ProvisionOps ==
    CreateOps \cup {"create_lambda_role", "create_lambda_role_with_s3_access"}

json_dumps(v) == [json |-> v]

\* mutant: a second statement trusting another service
trust_policy_two_statements ==
    [ Version |-> "2012-10-17",
      Statement |-> << [ Effect |-> "Allow",
                         Principal |-> [Service |-> "lambda.amazonaws.com"],
                         Action |-> "sts:AssumeRole" ],
                       [ Effect |-> "Allow",
                         Principal |-> [Service |-> "ec2.amazonaws.com"],
                         Action |-> "sts:AssumeRole" ] >> ]

trust_policy ==
    [ Version |-> "2012-10-17",
      Statement |-> << [ Effect |-> "Allow",
                         Principal |-> [Service |-> "lambda.amazonaws.com"],
                         Action |-> "sts:AssumeRole" ] >> ]

s3_policy ==
    [ Version |-> "2012-10-17",
      Statement |-> << [ Effect |-> "Allow",
                         Action |-> << "s3:GetObject", "s3:PutObject", "s3:DeleteObject",
                                       "s3:ListBucket", "s3:GetBucketLocation",
                                       "s3:ListAllMyBuckets" >>,
                         Resource |-> << "arn:aws:s3:::*", "arn:aws:s3:::*/*" >> ] >> ]

\* f"{role_name}-s3-access-policy"
PolicyName(role_name) ==
    role_name \o <<"-","s","3","-","a","c","c","e","s","s","-","p","o","l","i","c","y">>

Create_create_role ==
    /\ pc = "create_role"
    /\ op \in ProvisionOps
    /\ \E outcome \in CreateRoleOutcomes :
        /\ calls' = Issue("create_role",
                          [ RoleName |-> locals.generated_role_name,
                            AssumeRolePolicyDocument |-> json_dumps(trust_policy),
                            Description |-> "IAM role for Lambda function execution created by LambdaCreator" ],
                          outcome)
        /\ IF outcome.kind = "error"
           THEN Fail(ClientError(outcome.code)) /\ UNCHANGED locals
           ELSE /\ locals' = [locals EXCEPT !.create_role_response = outcome.body]
                /\ pc' = "attach_basic_policy"
                /\ UNCHANGED ret
    /\ UNCHANGED <<op, args, now>>

Create_attach_basic_policy ==
    /\ pc = "attach_basic_policy"
    /\ op \in ProvisionOps
    /\ \E outcome \in AttachRolePolicyOutcomes :
        /\ calls' = Issue("attach_role_policy",
                          [ RoleName |-> locals.generated_role_name,
                            PolicyArn |-> BasicExecutionPolicyArn ],
                          outcome)
        /\ IF outcome.kind = "error"
           THEN Fail(ClientError(outcome.code)) /\ UNCHANGED locals
           ELSE /\ locals' = [locals EXCEPT !.role_arn = locals.create_role_response.Role.Arn]
                /\ IF op = "create_lambda_role"
                   THEN /\ ret' = Return(locals.create_role_response.Role.Arn)
                        /\ pc' = "returned"
                   ELSE /\ pc' = "create_policy"
                        /\ UNCHANGED ret
    /\ UNCHANGED <<op, args, now>>

Create_create_policy ==
    /\ pc = "create_policy"
    /\ op \in ProvisionOps
    /\ \E outcome \in CreatePolicyOutcomes :
        /\ calls' = Issue("create_policy",
                          [ PolicyName |-> PolicyName(locals.generated_role_name),
                            PolicyDocument |-> json_dumps(s3_policy),
                            Description |-> "Policy for Lambda function to access all S3 buckets" ],
                          outcome)
        /\ IF outcome.kind = "error"
           THEN Fail(ClientError(outcome.code))
           ELSE pc' = "attach_s3_policy" /\ UNCHANGED ret
    /\ UNCHANGED <<op, args, locals, now>>

\* the policy ARN is the one create_policy answered, the call before this one
Create_attach_s3_policy ==
    /\ pc = "attach_s3_policy"
    /\ op \in ProvisionOps
    /\ \E outcome \in AttachRolePolicyOutcomes :
        /\ calls' = Issue("attach_role_policy",
                          [ RoleName |-> locals.generated_role_name,
                            PolicyArn |-> calls[Len(calls)].outcome.body.Policy.Arn ],
                          outcome)
        /\ IF outcome.kind = "error"
           THEN Fail(ClientError(outcome.code))
           ELSE pc' = "sleep" /\ UNCHANGED ret
    /\ UNCHANGED <<op, args, locals, now>>

\* mutant: the settling delay left out
Create_sleep_skipped ==
    /\ pc = "sleep"
    /\ op \in ProvisionOps
    /\ calls' = calls
    /\ now' = now
    /\ IF op = "create_lambda_role_with_s3_access"
       THEN /\ ret' = Return([ RoleName |-> locals.generated_role_name,
                               RoleArn |-> locals.role_arn ])
            /\ pc' = "returned"
       ELSE /\ pc' = "create_function"
            /\ UNCHANGED ret
    /\ UNCHANGED <<op, args, locals>>

\* time.sleep(10)
Create_sleep ==
    /\ pc = "sleep"
    /\ op \in ProvisionOps
    /\ calls' = Issue("sleep", 10, Ok(<<>>))
    /\ now' = now + 10
    /\ IF op = "create_lambda_role_with_s3_access"
       THEN /\ ret' = Return([ RoleName |-> locals.generated_role_name,
                               RoleArn |-> locals.role_arn ])
            /\ pc' = "returned"
       ELSE /\ pc' = "create_function"
            /\ UNCHANGED ret
    /\ UNCHANGED <<op, args, locals>>

\* mutant: a rejected create_function followed by the deletion of the role
Create_create_function_cleans_up ==
    /\ pc = "create_function"
    /\ op \in CreateOps
    /\ \E outcome \in CreateFunctionOutcomes :
        IF outcome.kind = "error"
        THEN /\ calls' = Append(Issue("create_function", create_params(locals), outcome),
                                [ api |-> "delete_role",
                                  params |-> [RoleName |-> locals.generated_role_name],
                                  outcome |-> Ok(<<>>) ])
             /\ Fail(ClientError(outcome.code))
        ELSE /\ calls' = Issue("create_function", create_params(locals), outcome)
             /\ ret' = Return(outcome.body)
             /\ pc' = "returned"
    /\ UNCHANGED <<op, args, locals, now>>

Create_create_function ==
    /\ pc = "create_function"
    /\ op \in CreateOps
    /\ \E outcome \in CreateFunctionOutcomes :
        /\ calls' = Issue("create_function", create_params(locals), outcome)
        /\ IF outcome.kind = "error"
           THEN Fail(ClientError(outcome.code))
           ELSE /\ ret' = Return(outcome.body)
                /\ pc' = "returned"
    /\ UNCHANGED <<op, args, locals, now>>

NextCreate ==
    \/ Call_create_lambda_from_ecr
    \/ Call_create_lambda_function
    \/ Create_describe_repositories
    \/ Create_get_role
    \/ Create_create_role
    \/ Create_attach_basic_policy
    \/ Create_create_policy
    \/ Create_attach_s3_policy
    \/ Create_sleep
    \/ Create_create_function

SpecCreate == Init /\ [][NextCreate]_vars

(***************************************************************************)
(* lambda_creator.py: update_lambda_function, get_lambda_function and      *)
(* delete_lambda_function.                                                 *)
(***************************************************************************)
ManagedFunctionName == <<"f","n">>

UpdateFunctionCodeOutcomes ==
    { Ok([FunctionName |-> ManagedFunctionName, PackageType |-> "Image"]),
      Err("ResourceNotFoundException") }
UpdateFunctionConfigurationOutcomes ==
    { Ok([FunctionName |-> ManagedFunctionName, LastUpdateStatus |-> "InProgress"]),
      Err("ResourceConflictException") }
GetFunctionOutcomes ==
    { Ok([Configuration |-> [FunctionName |-> ManagedFunctionName, State |-> "Active"]]),
      Err("ResourceNotFoundException") }
DeleteFunctionOutcomes ==
    { Ok([ResponseMetadata |-> [HTTPStatusCode |-> 204]]),
      Err("ResourceNotFoundException") }

\* Python truthiness of an Optional int
TruthyInt(x) == ~IsNone(x) /\ Get(x) # 0

\* the dict config_update once the six 'if <field>:' statements have run
config_update(l) ==
    (IF TruthyArn(l.role_arn) THEN [Role |-> Get(l.role_arn)] ELSE <<>>)
    @@ (IF TruthyInt(l.memory_size) THEN [MemorySize |-> Get(l.memory_size)] ELSE <<>>)
    @@ (IF TruthyInt(l.timeout) THEN [Timeout |-> Get(l.timeout)] ELSE <<>>)
    @@ (IF TruthyDict(l.environment_variables)
        THEN [Environment |-> [Variables |-> Get(l.environment_variables)]]
        ELSE <<>>)
    @@ (IF TruthyStr(l.description) THEN [Description |-> Get(l.description)] ELSE <<>>)
    @@ (IF TruthyDict(l.vpc_config) THEN [VpcConfig |-> Get(l.vpc_config)] ELSE <<>>)

\* mutant: the configuration update issued whether or not a field was collected
AfterImageUpdateAlwaysConfigures(l) == "update_function_configuration"

\* 'if config_update:' the configuration update, else get_lambda_function
AfterImageUpdate(l) ==
    IF DOMAIN config_update(l) # {}
    THEN "update_function_configuration"
    ELSE "get_function"

UpdateInputs ==
    [ function_name : { ManagedFunctionName },
      ecr_repository_name : { None, Some(<<>>), Some(<<"r","e","p","o">>) },
      image_tag : { None, Some(<<"v","1">>), Some(<<"a",":","b">>) },
      role_arn : { None, Some(ExistingRoleArn) },
      memory_size : { None, Some(0), Some(256) },
      timeout : { None, Some(0), Some(60) },
      environment_variables : { None, Some(<<>>), Some(<<"E">> :> <<"p">>) },
      description : { None, Some(<<>>), Some(<<"d">>) },
      vpc_config : { None, Some(<<>>),
                     Some([SubnetIds |-> <<"id-1">>, SecurityGroupIds |-> <<"id-2">>]) } ]

UpdateLocals(a) ==
    [ function_name |-> a.function_name,
      ecr_repository_name |-> a.ecr_repository_name,
      image_tag |-> Default(a.image_tag, DefaultImageTag),
      role_arn |-> a.role_arn,
      memory_size |-> a.memory_size,
      timeout |-> a.timeout,
      environment_variables |-> a.environment_variables,
      description |-> a.description,
      vpc_config |-> a.vpc_config,
      image_uri |-> None ]

Call_update_lambda_function ==
    /\ pc = "idle"
    /\ \E a \in UpdateInputs :
        /\ args' = a
        /\ locals' = UpdateLocals(a)
        /\ pc' = IF TruthyStr(a.ecr_repository_name)
                 THEN "describe_repositories"
                 ELSE AfterImageUpdate(UpdateLocals(a))
    /\ op' = "update_lambda_function"
    /\ UNCHANGED <<ret, calls, now>>

Update_describe_repositories ==
    /\ pc = "describe_repositories"
    /\ op = "update_lambda_function"
    /\ \E outcome \in DescribeRepositoriesOutcomes :
        /\ calls' = Issue("describe_repositories",
                          [repositoryNames |-> <<Get(locals.ecr_repository_name)>>], outcome)
        /\ LET r == _get_ecr_repository_uri(outcome) IN
           IF r.kind = "raise"
           THEN Fail(r.error) /\ UNCHANGED locals
           ELSE IF ~TruthyStr(r.value)
           THEN /\ Fail(ValueError(<<"ECR repository ", Get(locals.ecr_repository_name),
                                     " not found">>))
                /\ UNCHANGED locals
           ELSE /\ locals' = [locals EXCEPT
                                 !.image_uri = Some(ImageUri(Get(r.value), locals.image_tag))]
                /\ pc' = "update_function_code"
                /\ UNCHANGED ret
    /\ UNCHANGED <<op, args, now>>

\* mutant: a failed image update is logged and the update carries on
Update_update_function_code_carries_on ==
    /\ pc = "update_function_code"
    /\ op = "update_lambda_function"
    /\ \E outcome \in UpdateFunctionCodeOutcomes :
        /\ calls' = Issue("update_function_code",
                          [ FunctionName |-> locals.function_name,
                            ImageUri |-> Get(locals.image_uri) ],
                          outcome)
        /\ pc' = AfterImageUpdate(locals)
        /\ UNCHANGED ret
    /\ UNCHANGED <<op, args, locals, now>>

Update_update_function_code ==
    /\ pc = "update_function_code"
    /\ op = "update_lambda_function"
    /\ \E outcome \in UpdateFunctionCodeOutcomes :
        /\ calls' = Issue("update_function_code",
                          [ FunctionName |-> locals.function_name,
                            ImageUri |-> Get(locals.image_uri) ],
                          outcome)
        /\ IF outcome.kind = "error"
           THEN Fail(ClientError(outcome.code))
           ELSE pc' = AfterImageUpdate(locals) /\ UNCHANGED ret
    /\ UNCHANGED <<op, args, locals, now>>

Update_update_function_configuration ==
    /\ pc = "update_function_configuration"
    /\ op = "update_lambda_function"
    /\ \E outcome \in UpdateFunctionConfigurationOutcomes :
        /\ calls' = Issue("update_function_configuration",
                          [FunctionName |-> locals.function_name] @@ config_update(locals),
                          outcome)
        /\ IF outcome.kind = "error"
           THEN Fail(ClientError(outcome.code))
           ELSE /\ ret' = Return(outcome.body)
                /\ pc' = "returned"
    /\ UNCHANGED <<op, args, locals, now>>

Call_get_lambda_function ==
    /\ pc = "idle"
    /\ args' = [function_name |-> ManagedFunctionName]
    /\ locals' = [function_name |-> ManagedFunctionName]
    /\ op' = "get_lambda_function"
    /\ pc' = "get_function"
    /\ UNCHANGED <<ret, calls, now>>

\* get_lambda_function, called by the caller or as the last statement of
\* update_lambda_function, which returns what it returns
Manager_get_function ==
    /\ pc = "get_function"
    /\ op \in {"get_lambda_function", "update_lambda_function"}
    /\ \E outcome \in GetFunctionOutcomes :
        /\ calls' = Issue("get_function", [FunctionName |-> locals.function_name], outcome)
        /\ IF outcome.kind = "error"
           THEN Fail(ClientError(outcome.code))
           ELSE /\ ret' = Return(outcome.body)
                /\ pc' = "returned"
    /\ UNCHANGED <<op, args, locals, now>>

Call_delete_lambda_function ==
    /\ pc = "idle"
    /\ args' = [function_name |-> ManagedFunctionName]
    /\ locals' = [function_name |-> ManagedFunctionName]
    /\ op' = "delete_lambda_function"
    /\ pc' = "delete_function"
    /\ UNCHANGED <<ret, calls, now>>

Delete_delete_function ==
    /\ pc = "delete_function"
    /\ op = "delete_lambda_function"
    /\ \E outcome \in DeleteFunctionOutcomes :
        /\ calls' = Issue("delete_function", [FunctionName |-> locals.function_name], outcome)
        /\ IF outcome.kind = "error"
           THEN Fail(ClientError(outcome.code))
           ELSE /\ ret' = Return(outcome.body)
                /\ pc' = "returned"
    /\ UNCHANGED <<op, args, locals, now>>

(***************************************************************************)
(* lambda_creator.py: invoke_lambda_function.                              *)
(***************************************************************************)
DefaultInvocationType == "RequestResponse"

\* str.encode(): the bytes of a text; bytes.decode('utf-8') gives the text
\* back, and raises on bytes that are no UTF-8 text
encode(text) == [utf8 |-> text]
InvalidUtf8 == [invalid |-> TRUE]
UnicodeDecodeError == [type |-> "UnicodeDecodeError"]
decode(bytes) ==
    IF "utf8" \in DOMAIN bytes THEN Return(bytes.utf8) ELSE Raise(UnicodeDecodeError)

\* the Python values json.loads makes
PyNone == [py |-> "None"]
PyDict(items) == [py |-> "dict", items |-> items]
PyInt(n) == [py |-> "int", n |-> n]
PyStr(s) == [py |-> "str", s |-> s]
JSONDecodeError == [type |-> "JSONDecodeError"]

IsDigits(text) ==
    /\ Len(text) > 0
    /\ \A i \in 1..Len(text) : text[i] \in {DecimalDigits[k] : k \in 1..10}

RECURSIVE StrToInt(_)
StrToInt(text) ==
    IF text = <<>> THEN 0
    ELSE 10 * StrToInt(SubSeq(text, 1, Len(text) - 1))
         + ((CHOOSE k \in 1..10 : DecimalDigits[k] = text[Len(text)]) - 1)

\* json.loads on a text without whitespace: null, the empty object, a number
\* without sign or fraction, a string without escapes; any other text of the
\* model is no JSON document
json_loads(text) ==
    IF text = <<"n","u","l","l">> THEN Return(PyNone)
    ELSE IF text = <<"{","}">> THEN Return(PyDict(<<>>))
    ELSE IF IsDigits(text) /\ (Len(text) = 1 \/ text[1] # "0") THEN Return(PyInt(StrToInt(text)))
    ELSE IF /\ Len(text) >= 2
            /\ text[1] = "\"" /\ text[Len(text)] = "\""
            /\ \A i \in 2..(Len(text) - 1) : text[i] \notin {"\"", "\\"}
    THEN Return(PyStr(SubSeq(text, 2, Len(text) - 1)))
    ELSE Raise(JSONDecodeError)

ResponseTexts ==
    { <<>>, <<"n","u","l","l">>, <<"{","}">>, <<"4","2">>, <<"\"","o","k","\"">>,
      <<"o","o","p","s">>, <<"{">> }

InvokeOutcomes ==
    { Ok([StatusCode |-> 200, Payload |-> encode(t)]) : t \in ResponseTexts }
    \cup { Ok([StatusCode |-> 200, Payload |-> InvalidUtf8]),
           Ok([StatusCode |-> 202]),
           Err("ResourceNotFoundException") }

InvokeInputs ==
    [ function_name : { ManagedFunctionName },
      payload : { None, Some(<<>>), Some([input |-> "test"]) },
      invocation_type : { None, Some("Event"), Some("DryRun") } ]

\* the keyword arguments of invoke
invoke_params(l) ==
    [ FunctionName |-> l.function_name,
      InvocationType |-> l.invocation_type ]
    @@ (IF TruthyDict(l.payload)
        THEN [Payload |-> encode(json_dumps(Get(l.payload)))]
        ELSE <<>>)

Call_invoke_lambda_function ==
    /\ pc = "idle"
    /\ \E a \in InvokeInputs :
        /\ args' = a
        /\ locals' = [ function_name |-> a.function_name,
                       payload |-> a.payload,
                       invocation_type |-> Default(a.invocation_type, DefaultInvocationType) ]
    /\ op' = "invoke_lambda_function"
    /\ pc' = "invoke"
    /\ UNCHANGED <<ret, calls, now>>

\* what invoke_lambda_function makes of the response of invoke
InvokeResult(response) ==
    IF "Payload" \notin DOMAIN response THEN Return(response)
    ELSE LET response_payload == decode(response.Payload) IN
         IF response_payload.kind = "raise" THEN response_payload
         ELSE IF response_payload.value = <<>> THEN Return(response)
         ELSE LET parsed == json_loads(response_payload.value) IN
              Return([ResponsePayload |-> IF parsed.kind = "raise"
                                          THEN PyStr(response_payload.value)
                                          ELSE parsed.value]
                     @@ response)

Invoke_invoke ==
    /\ pc = "invoke"
    /\ op = "invoke_lambda_function"
    /\ \E outcome \in InvokeOutcomes :
        /\ calls' = Issue("invoke", invoke_params(locals), outcome)
        /\ IF outcome.kind = "error"
           THEN Fail(ClientError(outcome.code))
           ELSE /\ ret' = InvokeResult(outcome.body)
                /\ pc' = IF InvokeResult(outcome.body).kind = "raise"
                         THEN "raised"
                         ELSE "returned"
    /\ UNCHANGED <<op, args, locals, now>>

(***************************************************************************)
(* lambda_creator.py: list_lambda_functions.  The paginator sends          *)
(* MaxItems with every list_functions request and follows NextMarker until *)
(* a page comes without one.                                               *)
(***************************************************************************)
DefaultMaxItems == 50
\* most pages the control plane answers with
MaxPages == 3
\* most functions the control plane puts on a page
MaxPageSize == 2

Min(a, b) == IF a < b THEN a ELSE b

ListInputs == [ max_items : { None, Some(1), Some(2) } ]

\* the pages the control plane may answer with: at most MaxItems functions,
\* a NextMarker when there are more
ListFunctionsOutcomes(max_items, listed, pages) ==
    { Ok([Functions |-> [i \in 1..k |-> [FunctionName |-> listed + i]]]) :
          k \in 0..Min(max_items, MaxPageSize) }
    \cup { Ok([ Functions |-> [i \in 1..k |-> [FunctionName |-> listed + i]],
                NextMarker |-> listed + k ]) :
          k \in IF pages + 1 < MaxPages THEN 1..Min(max_items, MaxPageSize) ELSE {} }
    \cup { Ok(<<>>), Err("TooManyRequestsException") }

Call_list_lambda_functions ==
    /\ pc = "idle"
    /\ \E a \in ListInputs :
        /\ args' = a
        /\ locals' = [ max_items |-> Default(a.max_items, DefaultMaxItems),
                       functions |-> <<>>,
                       marker |-> None ]
    /\ op' = "list_lambda_functions"
    /\ pc' = "list_functions"
    /\ UNCHANGED <<ret, calls, now>>

\* one request of the paginator and the loop body for the page it yields
List_list_functions ==
    /\ pc = "list_functions"
    /\ op = "list_lambda_functions"
    /\ \E outcome \in ListFunctionsOutcomes(locals.max_items, Len(locals.functions),
                                            Cardinality(CallsTo("list_functions"))) :
        /\ calls' = Issue("list_functions",
                          [MaxItems |-> locals.max_items]
                          @@ (IF IsNone(locals.marker)
                              THEN <<>>
                              ELSE [Marker |-> Get(locals.marker)]),
                          outcome)
        /\ IF outcome.kind = "error"
           THEN Fail(ClientError(outcome.code)) /\ UNCHANGED locals
           ELSE LET functions == locals.functions \o DictGet(outcome.body, "Functions", <<>>)
                IN  IF "NextMarker" \in DOMAIN outcome.body
                    THEN /\ locals' = [locals EXCEPT
                                          !.functions = functions,
                                          !.marker = Some(outcome.body.NextMarker)]
                         /\ UNCHANGED <<pc, ret>>
                    ELSE /\ locals' = [locals EXCEPT !.functions = functions]
                         /\ ret' = Return(functions)
                         /\ pc' = "returned"
    /\ UNCHANGED <<op, args, now>>

NextManage ==
    \/ Call_update_lambda_function
    \/ Update_describe_repositories
    \/ Update_update_function_code
    \/ Update_update_function_configuration
    \/ Call_get_lambda_function
    \/ Manager_get_function
    \/ Call_delete_lambda_function
    \/ Delete_delete_function
    \/ Call_invoke_lambda_function
    \/ Invoke_invoke
    \/ Call_list_lambda_functions
    \/ List_list_functions

SpecManage == Init /\ [][NextManage]_vars

\* every operation of the Function Manager
NextFunctionManager ==
    \/ NextCreate
    \/ NextManage

SpecFunctionManager == Init /\ [][NextFunctionManager]_vars

(***************************************************************************)
(* lambda_role.py: create_lambda_role and                                  *)
(* create_lambda_role_with_s3_access called by the caller.                 *)
(***************************************************************************)
RoleLocals(role_name) ==
    [ generated_role_name |-> role_name,
      role_arn |-> "",
      create_role_response |-> <<>> ]

Call_create_lambda_role ==
    /\ pc = "idle"
    /\ \E role_name \in { <<"r","o">>, <<"r","2">> } :
        /\ args' = [role_name |-> role_name]
        /\ locals' = RoleLocals(role_name)
    /\ op' = "create_lambda_role"
    /\ pc' = "create_role"
    /\ UNCHANGED <<ret, calls, now>>

\* f"lambda-s3-access-role-{int(time.time())}"
S3AccessRoleName(time) ==
    <<"l","a","m","b","d","a","-","s","3","-","a","c","c","e","s","s","-","r","o","l","e","-">> \o IntToStr(time)

Call_create_lambda_role_with_s3_access ==
    /\ pc = "idle"
    /\ args' = [region_name |-> None]
    /\ locals' = RoleLocals(S3AccessRoleName(now))
    /\ op' = "create_lambda_role_with_s3_access"
    /\ pc' = "create_role"
    /\ UNCHANGED <<ret, calls, now>>

(***************************************************************************)
(* lambda_role.py: delete_role_and_policies.                               *)
(***************************************************************************)
\* most policies attached to the role, most inline policies of the role
MaxAttached == 2
MaxInline == 2

\* arn:aws:iam::123456789012:policy/other
OtherPolicyArn ==
    <<"a","r","n",":","a","w","s",":","i","a","m",":",":","1","2","3","4","5","6","7","8","9","0","1","2",":","p","o","l","i","c","y","/","o","t","h","e","r">>

AttachablePolicies ==
    { [PolicyName |-> "AWSLambdaBasicExecutionRole", PolicyArn |-> BasicExecutionPolicyArn],
      [PolicyName |-> "created", PolicyArn |-> CreatedPolicyArn],
      [PolicyName |-> "other", PolicyArn |-> OtherPolicyArn] }
InlinePolicyNames == { "inline-policy-1", "inline-policy-2" }

\* the listings of a set: every order, no entry twice
Listings(S, n) ==
    { l \in SeqsUpTo(S, n) : \A i, j \in 1..Len(l) : i # j => l[i] # l[j] }

ListAttachedRolePoliciesOutcomes ==
    { Ok([AttachedPolicies |-> l]) : l \in Listings(AttachablePolicies, MaxAttached) }
    \cup { Ok(<<>>), Err("NoSuchEntity") }
ListRolePoliciesOutcomes ==
    { Ok([PolicyNames |-> l]) : l \in Listings(InlinePolicyNames, MaxInline) }
    \cup { Ok(<<>>), Err("NoSuchEntity") }
DetachRolePolicyOutcomes == { Ok(<<>>), Err("NoSuchEntity") }
DeletePolicyOutcomes == { Ok(<<>>), Err("DeleteConflict") }
DeleteRolePolicyOutcomes == { Ok(<<>>), Err("NoSuchEntity") }
DeleteRoleOutcomes == { Ok(<<>>), Err("DeleteConflict") }

\* str.startswith
StartsWith(s, prefix) ==
    Len(s) >= Len(prefix) /\ SubSeq(s, 1, Len(prefix)) = prefix

\* mutant: no policy taken for an AWS managed one
IsAwsManagedNever(policy_arn) == FALSE

\* policy_arn.startswith('arn:aws:iam::aws:policy/')
IsAwsManaged(policy_arn) ==
    StartsWith(policy_arn, <<"a","r","n",":","a","w","s",":","i","a","m",":",":","a","w","s",":","p","o","l","i","c","y","/">>)

\* mutant: a policy of the account deleted without being detached
AttachedLoopStepDeletesFirst(attached, i) ==
    IF i <= Len(attached)
    THEN IF IsAwsManaged(attached[i].PolicyArn) THEN "detach_role_policy" ELSE "delete_policy"
    ELSE "list_role_policies"

\* 'for policy in attached_policies...': the loop body's first call for the
\* i-th policy, and the listing of the inline policies after the last one
AttachedLoopStep(attached, i) ==
    IF i <= Len(attached) THEN "detach_role_policy" ELSE "list_role_policies"

\* 'for policy_name in inline_policies...', and delete_role after the loop
InlineLoopStep(inline, j) ==
    IF j <= Len(inline) THEN "delete_role_policy" ELSE "delete_role"

Call_delete_role_and_policies ==
    /\ pc = "idle"
    /\ args' = [role_name |-> <<"r","o">>, region_name |-> None]
    /\ locals' = [ role_name |-> <<"r","o">>,
                   attached |-> <<>>, i |-> 1,
                   inline |-> <<>>, j |-> 1 ]
    /\ op' = "delete_role_and_policies"
    /\ pc' = "list_attached_role_policies"
    /\ UNCHANGED <<ret, calls, now>>

Teardown_list_attached_role_policies ==
    /\ pc = "list_attached_role_policies"
    /\ op = "delete_role_and_policies"
    /\ \E outcome \in ListAttachedRolePoliciesOutcomes :
        /\ calls' = Issue("list_attached_role_policies",
                          [RoleName |-> locals.role_name], outcome)
        /\ IF outcome.kind = "error"
           THEN Fail(ClientError(outcome.code)) /\ UNCHANGED locals
           ELSE LET attached == DictGet(outcome.body, "AttachedPolicies", <<>>) IN
                /\ locals' = [locals EXCEPT !.attached = attached, !.i = 1]
                /\ pc' = AttachedLoopStep(attached, 1)
                /\ UNCHANGED ret
    /\ UNCHANGED <<op, args, now>>

\* mutant: a failed detach logged and the loop carried on
Teardown_detach_role_policy_carries_on ==
    /\ pc = "detach_role_policy"
    /\ op = "delete_role_and_policies"
    /\ \E outcome \in DetachRolePolicyOutcomes :
        /\ calls' = Issue("detach_role_policy",
                          [ RoleName |-> locals.role_name,
                            PolicyArn |-> locals.attached[locals.i].PolicyArn ],
                          outcome)
        /\ IF outcome.kind = "ok" /\ ~IsAwsManaged(locals.attached[locals.i].PolicyArn)
           THEN /\ pc' = "delete_policy"
                /\ UNCHANGED <<ret, locals>>
           ELSE /\ locals' = [locals EXCEPT !.i = locals.i + 1]
                /\ pc' = AttachedLoopStep(locals.attached, locals.i + 1)
                /\ UNCHANGED ret
    /\ UNCHANGED <<op, args, now>>

Teardown_detach_role_policy ==
    /\ pc = "detach_role_policy"
    /\ op = "delete_role_and_policies"
    /\ \E outcome \in DetachRolePolicyOutcomes :
        /\ calls' = Issue("detach_role_policy",
                          [ RoleName |-> locals.role_name,
                            PolicyArn |-> locals.attached[locals.i].PolicyArn ],
                          outcome)
        /\ IF outcome.kind = "error"
           THEN Fail(ClientError(outcome.code)) /\ UNCHANGED locals
           ELSE IF ~IsAwsManaged(locals.attached[locals.i].PolicyArn)
           THEN /\ pc' = "delete_policy"
                /\ UNCHANGED <<ret, locals>>
           ELSE /\ locals' = [locals EXCEPT !.i = locals.i + 1]
                /\ pc' = AttachedLoopStep(locals.attached, locals.i + 1)
                /\ UNCHANGED ret
    /\ UNCHANGED <<op, args, now>>

Teardown_delete_policy ==
    /\ pc = "delete_policy"
    /\ op = "delete_role_and_policies"
    /\ \E outcome \in DeletePolicyOutcomes :
        /\ calls' = Issue("delete_policy",
                          [PolicyArn |-> locals.attached[locals.i].PolicyArn], outcome)
        /\ IF outcome.kind = "error"
           THEN Fail(ClientError(outcome.code)) /\ UNCHANGED locals
           ELSE /\ locals' = [locals EXCEPT !.i = locals.i + 1]
                /\ pc' = AttachedLoopStep(locals.attached, locals.i + 1)
                /\ UNCHANGED ret
    /\ UNCHANGED <<op, args, now>>

Teardown_list_role_policies ==
    /\ pc = "list_role_policies"
    /\ op = "delete_role_and_policies"
    /\ \E outcome \in ListRolePoliciesOutcomes :
        /\ calls' = Issue("list_role_policies", [RoleName |-> locals.role_name], outcome)
        /\ IF outcome.kind = "error"
           THEN Fail(ClientError(outcome.code)) /\ UNCHANGED locals
           ELSE LET inline == DictGet(outcome.body, "PolicyNames", <<>>) IN
                /\ locals' = [locals EXCEPT !.inline = inline, !.j = 1]
                /\ pc' = InlineLoopStep(inline, 1)
                /\ UNCHANGED ret
    /\ UNCHANGED <<op, args, now>>

Teardown_delete_role_policy ==
    /\ pc = "delete_role_policy"
    /\ op = "delete_role_and_policies"
    /\ \E outcome \in DeleteRolePolicyOutcomes :
        /\ calls' = Issue("delete_role_policy",
                          [ RoleName |-> locals.role_name,
                            PolicyName |-> locals.inline[locals.j] ],
                          outcome)
        /\ IF outcome.kind = "error"
           THEN Fail(ClientError(outcome.code)) /\ UNCHANGED locals
           ELSE /\ locals' = [locals EXCEPT !.j = locals.j + 1]
                /\ pc' = InlineLoopStep(locals.inline, locals.j + 1)
                /\ UNCHANGED ret
    /\ UNCHANGED <<op, args, now>>

Teardown_delete_role ==
    /\ pc = "delete_role"
    /\ op = "delete_role_and_policies"
    /\ \E outcome \in DeleteRoleOutcomes :
        /\ calls' = Issue("delete_role", [RoleName |-> locals.role_name], outcome)
        /\ IF outcome.kind = "error"
           THEN Fail(ClientError(outcome.code))
           ELSE /\ ret' = Return(None)
                /\ pc' = "returned"
    /\ UNCHANGED <<op, args, locals, now>>

NextRole ==
    \/ Call_create_lambda_role
    \/ Call_create_lambda_role_with_s3_access
    \/ Create_create_role
    \/ Create_attach_basic_policy
    \/ Create_create_policy
    \/ Create_attach_s3_policy
    \/ Create_sleep
    \/ Call_delete_role_and_policies
    \/ Teardown_list_attached_role_policies
    \/ Teardown_detach_role_policy
    \/ Teardown_delete_policy
    \/ Teardown_list_role_policies
    \/ Teardown_delete_role_policy
    \/ Teardown_delete_role

SpecRole == Init /\ [][NextRole]_vars

\* the two places a role is provisioned from: create, and the role module
NextProvisioning ==
    \/ NextCreate
    \/ NextRole

SpecProvisioning == Init /\ [][NextProvisioning]_vars

(***************************************************************************)
(* The role name create generates for a function name, given to            *)
(* validate_role_name: validate_function_name is called on a name, the     *)
(* name create would generate for an accepted one is built, and the role   *)
(* name rule is applied to it.                                             *)
(***************************************************************************)
\* generated_role_name = f"{function_name}-role-{int(time.time())}"
Generate_role_name ==
    /\ pc = "returned"
    /\ op = "validate_function_name"
    /\ ret = Return(TRUE)
    /\ locals' = [generated_role_name |-> GeneratedRoleName(args.function_name, now)]
    /\ pc' = "generated"
    /\ UNCHANGED <<op, args, ret, calls, now>>

Call_validate_role_name ==
    /\ pc = "generated"
    /\ ret' = Return(validate_role_name(locals.generated_role_name))
    /\ op' = "validate_role_name"
    /\ pc' = "returned"
    /\ UNCHANGED <<args, calls, locals, now>>

NextGeneratedRoleName ==
    \/ Call_validate_function_name
    \/ Generate_role_name
    \/ Call_validate_role_name

SpecGeneratedRoleName == Init /\ [][NextGeneratedRoleName]_vars


(***************************************************************************)
(* create_lambda_role_with_s3_access invoked again and again against one   *)
(* account: by one process after an invocation returned or raised, or by   *)
(* another process run.  The log keeps the calls of the earlier            *)
(* invocations; the clock moves between invocations, by whole seconds.     *)
(***************************************************************************)
\* most invocations, most seconds that pass between invocations
MaxInvocations == 2
MaxTicks == 2

Tick ==
    /\ pc = "idle"
    /\ now < StartTime + MaxTicks
    /\ now' = now + 1
    /\ UNCHANGED <<pc, op, args, ret, calls, locals>>

NextInvocation ==
    /\ pc \in {"returned", "raised"}
    /\ op = "create_lambda_role_with_s3_access"
    /\ Cardinality(CallsTo("create_role")) < MaxInvocations
    /\ pc' = "idle"
    /\ op' = "none"
    /\ args' = NoValue
    /\ ret' = NoValue
    /\ locals' = NoValue
    /\ UNCHANGED <<calls, now>>

NextRoleNames ==
    \/ Call_create_lambda_role_with_s3_access
    \/ Create_create_role
    \/ Create_attach_basic_policy
    \/ Create_create_policy
    \/ Create_attach_s3_policy
    \/ Create_sleep
    \/ NextInvocation
    \/ Tick

SpecRoleNames == Init /\ [][NextRoleNames]_vars

(***************************************************************************)
(* cli.py: main and the six subcommand functions.  The process ends with   *)
(* an exit code; what logger.error wrote is kept in locals.errors.         *)
(***************************************************************************)
SystemExit(code) == [kind |-> "exit", code |-> code]
TypeError == [type |-> "TypeError"]

\* the texts --env-vars, --tags and --payload are given: none, the empty
\* text, an object, a number, and two texts that are no JSON
JsonTexts ==
    { None, Some(<<>>), Some(<<"{","}">>), Some(<<"4","2">>),
      Some(<<"{">>), Some(<<"o","o","p","s">>) }

CliActions == {"create", "update", "delete", "invoke", "get", "list"}

\* the namespace parse_args returns
CliInputs ==
    [ action : CliActions,
      env_vars : JsonTexts,
      tags : JsonTexts,
      payload : JsonTexts,
      output : {"json", "text"} ]

\* mutant: a text that does not parse taken for no text
parse_json_arg_lenient(json_str) ==
    IF ~TruthyStr(json_str) THEN Return(None)
    ELSE LET parsed == json_loads(Get(json_str)) IN
         IF parsed.kind = "raise" THEN Return(None) ELSE Return(Some(parsed.value))

\* parse_json_arg: None for no text and for the empty text, the parsed value,
\* or sys.exit(1) after logging the parse error
parse_json_arg(json_str) ==
    IF ~TruthyStr(json_str) THEN Return(None)
    ELSE LET parsed == json_loads(Get(json_str)) IN
         IF parsed.kind = "raise" THEN SystemExit(1) ELSE Return(Some(parsed.value))

\* the parameters create_lambda_function and LambdaCreator.__init__ declare
create_lambda_function_parameters ==
    { "function_name", "ecr_repository_name", "region_name", "role_name", "image_tag",
      "memory_size", "timeout", "environment_variables", "description", "tags",
      "vpc_config" }
LambdaCreator_init_parameters == { "region_name" }

\* the keyword arguments create_lambda passes to create_lambda_function, and
\* the ones the other subcommands pass to LambdaCreator
create_lambda_keywords ==
    { "function_name", "ecr_repository_name", "region_name", "profile_name", "role_name",
      "image_tag", "memory_size", "timeout", "environment_variables", "description",
      "tags", "force_delete_existing" }
LambdaCreator_keywords == { "region_name", "profile_name" }

\* a Python call by keyword: TypeError when a keyword is not a parameter
BindKeywords(keywords, parameters) ==
    IF keywords \subseteq parameters THEN Return(None) ELSE Raise(TypeError)

\* the texts the subcommand hands to parse_json_arg, in the order it does
ParsedTexts(a) ==
    CASE a.action = "create" -> <<a.env_vars, a.tags>>
      [] a.action = "update" -> <<a.env_vars>>
      [] a.action = "invoke" -> <<a.payload>>
      [] OTHER -> <<>>

\* the first call into the library the subcommand makes
LibraryCall(a) ==
    IF a.action = "create"
    THEN BindKeywords(create_lambda_keywords, create_lambda_function_parameters)
    ELSE BindKeywords(LambdaCreator_keywords, LambdaCreator_init_parameters)

Call_main ==
    /\ pc = "idle"
    /\ \E a \in CliInputs : args' = a
    /\ locals' = [errors |-> <<>>]
    /\ op' = "main"
    /\ pc' = "main"
    /\ UNCHANGED <<ret, calls, now>>

\* mutant: the handler of main logs the error and lets main return
Main_run_returns_after_error ==
    /\ pc = "main"
    /\ op = "main"
    /\ LET texts == ParsedTexts(args)
           failed == {i \in 1..Len(texts) : parse_json_arg(texts[i]).kind = "exit"}
       IN  IF failed # {}
           THEN /\ locals' = [locals EXCEPT !.errors = Append(@, "Error parsing JSON")]
                /\ ret' = SystemExit(1)
                /\ pc' = "exited"
           ELSE IF LibraryCall(args).kind = "raise"
           THEN /\ locals' = [locals EXCEPT !.errors = Append(@, "Error: TypeError")]
                /\ ret' = SystemExit(0)
                /\ pc' = "exited"
           ELSE /\ pc' = "library"
                /\ UNCHANGED <<ret, locals>>
    /\ UNCHANGED <<op, args, calls, now>>

\* main from the dispatch on: the subcommand parses its JSON texts, then calls
\* into the library; 'except Exception' logs and exits with 1.  No call
\* leaves the process before the library is entered.
Main_run ==
    /\ pc = "main"
    /\ op = "main"
    /\ LET texts == ParsedTexts(args)
           failed == {i \in 1..Len(texts) : parse_json_arg(texts[i]).kind = "exit"}
       IN  IF failed # {}
           THEN /\ locals' = [locals EXCEPT !.errors = Append(@, "Error parsing JSON")]
                /\ ret' = SystemExit(1)
                /\ pc' = "exited"
           ELSE IF LibraryCall(args).kind = "raise"
           THEN /\ locals' = [locals EXCEPT !.errors = Append(@, "Error: TypeError")]
                /\ ret' = SystemExit(1)
                /\ pc' = "exited"
           ELSE /\ pc' = "library"
                /\ UNCHANGED <<ret, locals>>
    /\ UNCHANGED <<op, args, calls, now>>

NextCli ==
    \/ Call_main
    \/ Main_run

SpecCli == Init /\ [][NextCli]_vars





(***************************************************************************)
(* Properties of the validators.                                           *)
(***************************************************************************)
Returned(o) == op = o /\ pc = "returned"

\* every character of s is in cls
AllIn(cls, s) == \A i \in 1..Len(s) : s[i] \in cls

\* C4: validate_function_name(name) is True if and only if
\* 1 <= len(name) <= 64 and every character of name is in [A-Za-z0-9_-].
C4_FunctionNameRule ==
    Returned("validate_function_name") =>
        LET name == args.function_name IN
        ret.value = (/\ 1 <= Len(name)
                     /\ Len(name) <= 64
                     /\ AllIn(FunctionNameChars, name))

\* C5: validate_memory_size(m) is True if and only if 128 <= m <= 10240 and
\* m is a multiple of 64.
C5_MemorySizeRule ==
    Returned("validate_memory_size") =>
        LET m == args.memory_size IN
        ret.value = (128 <= m /\ m <= 10240 /\ m % 64 = 0)

C5_Witness ==
    /\ Returned("validate_memory_size")
    /\ args.memory_size = 10240
    /\ ret.value = TRUE

\* C6: validate_timeout(t) is True if and only if 1 <= t <= 900, for zero
\* and negative t too.
C6_TimeoutRule ==
    Returned("validate_timeout") =>
        LET t == args.timeout IN
        ret.value = (1 <= t /\ t <= 900)

C6_Witness ==
    /\ Returned("validate_timeout")
    /\ args.timeout = 0
    /\ ret.value = FALSE

\* the key matches [A-Za-z][A-Za-z0-9_]* in full
FullMatchEnvKey(key) ==
    /\ Len(key) >= 1
    /\ key[1] \in EnvKeyFirstChars
    /\ \A i \in 2..Len(key) : key[i] \in EnvKeyRestChars

\* the length of a string in bytes (UTF-8)
Utf8Len(c) == IF c = "U+00E9" THEN 2 ELSE 1

ByteLen(s) ==
    Cardinality({i \in 1..Len(s) : Utf8Len(s[i]) = 1})
        + 2 * Cardinality({i \in 1..Len(s) : Utf8Len(s[i]) = 2})

RECURSIVE SumBytes(_, _)
SumBytes(d, keys) ==
    IF keys = {} THEN 0
    ELSE LET k == CHOOSE x \in keys : TRUE
         IN  ByteLen(k) + ByteLen(d[k]) + SumBytes(d, keys \ {k})

\* C7: validate_environment_variables(env) is True if and only if every key
\* matches [A-Za-z][A-Za-z0-9_]* in full and the key and value lengths,
\* measured in bytes, sum to at most 4096.
C7_EnvironmentRule ==
    Returned("validate_environment_variables") =>
        LET env == args.env_vars IN
        ret.value = (/\ \A key \in DOMAIN env : FullMatchEnvKey(key)
                     /\ SumBytes(env, DOMAIN env) <= 4096)

\* the mapping d with only the entries whose keys are in D
Restrict(d, D) == [k \in D |-> d[k]]

\* C8: when validate_environment_variables accepts a mapping, it accepts
\* every mapping obtained from it by removing entries.
C8_EnvRemovalMonotonic ==
    (Returned("validate_environment_variables") /\ ret.value = TRUE) =>
        \A D \in SUBSET DOMAIN args.env_vars :
            validate_environment_variables(Restrict(args.env_vars, D))

C8_Witness ==
    /\ Returned("validate_environment_variables")
    /\ ret.value = TRUE
    /\ Cardinality(DOMAIN args.env_vars) >= 2
    /\ total_size(args.env_vars) = 4096

\* C9: validate_vpc_config(c) is True if and only if c is None, or c has a
\* 'SubnetIds' entry and a 'SecurityGroupIds' entry with at least one element
\* each.
C9_VpcConfigRule ==
    Returned("validate_vpc_config") =>
        LET c == args.vpc_config IN
        ret.value = (\/ IsNone(c)
                     \/ /\ "SubnetIds" \in DOMAIN Get(c)
                        /\ "SecurityGroupIds" \in DOMAIN Get(c)
                        /\ Len(Get(c)["SubnetIds"]) >= 1
                        /\ Len(Get(c)["SecurityGroupIds"]) >= 1)

C9_Witness ==
    /\ Returned("validate_vpc_config")
    /\ ~IsNone(args.vpc_config)
    /\ DOMAIN Get(args.vpc_config) = {"SubnetIds"}
    /\ Len(Get(args.vpc_config)["SubnetIds"]) >= 1
    /\ ret.value = FALSE

\* what each rule says of its field, in the composite's order; a role name
\* counts as supplied when it is a non-empty string
RuleResults(a) ==
    << validate_function_name(a.function_name),
       validate_ecr_repository_name(a.ecr_repository_name),
       ~TruthyStr(a.role_name) \/ validate_role_name(Get(a.role_name)),
       validate_image_tag(Default(a.image_tag, DefaultImageTag)),
       validate_memory_size(Default(a.memory_size, DefaultMemorySize)),
       validate_timeout(Default(a.timeout, DefaultTimeout)),
       IsNone(a.environment_variables)
           \/ validate_environment_variables(Get(a.environment_variables)),
       IsNone(a.tags) \/ validate_tags(Get(a.tags)),
       validate_vpc_config(a.vpc_config) >>

RuleMessages ==
    << MsgFunctionName, MsgRepositoryName, MsgRoleName, MsgImageTag, MsgMemorySize,
       MsgTimeout, MsgEnvironment, MsgTags, MsgVpcConfig >>

FirstFailing(r) == CHOOSE i \in 1..Len(r) : ~r[i] /\ \A j \in 1..(i - 1) : r[j]

\* C2: whenever at least one rule rejects its field, validate_input_parameters
\* returns valid=False with the message of the earliest rejecting rule in the
\* order name, repository, role, tag, memory, timeout, environment, tags,
\* network-placement config.
C2_FirstFailingRuleMessage ==
    Returned("validate_input_parameters") =>
        LET r == RuleResults(args) IN
        (\E i \in 1..Len(r) : ~r[i]) =>
            ret.value = Invalid(RuleMessages[FirstFailing(r)])

\* C3: validate_input_parameters returns valid=True, with the message 'All
\* parameters are valid.', if and only if every rule accepts its field; a
\* present network-placement config that validate_vpc_config rejects, the
\* empty mapping included, makes the result invalid.
C3_ValidIffAllRulesAccept ==
    Returned("validate_input_parameters") =>
        LET r == RuleResults(args) IN
        /\ ret.value.valid = (\A i \in 1..Len(r) : r[i])
        /\ ret.value.valid = (ret.value.message = MsgValid)

(***************************************************************************)
(* Properties of create.                                                   *)
(***************************************************************************)
\* what validate_input_parameters says of the request create was called with
RequestValidation(a) ==
    validate_input_parameters(
        a.function_name, a.ecr_repository_name, a.role_name,
        Default(a.image_tag, DefaultImageTag),
        Default(a.memory_size, DefaultMemorySize),
        Default(a.timeout, DefaultTimeout),
        a.environment_variables, a.tags, a.vpc_config)

\* C1: create_function is submitted only for a request that
\* validate_input_parameters accepts: no creation call is made for a request
\* with a field that fails its Validator rule.
C1_OnlyValidRequestsSubmitted ==
    (op \in CreateOps /\ CallsTo("create_function") # {}) =>
        RequestValidation(args).valid

\* the URI the registry answered and the ARN the identity service answered,
\* read off the log
ResolvedUri ==
    LET i == CHOOSE i \in CallsTo("describe_repositories") : TRUE
    IN  calls[i].outcome.body.repositories[1].repositoryUri
ResolvedRoleArn ==
    LET i == CHOOSE i \in CallsTo("get_role") \cup CallsTo("create_role") : TRUE
    IN  calls[i].outcome.body.Role.Arn

\* C10: a successful create has submitted exactly one creation call; it
\* carries the image reference '<resolved repository URI>:<image tag>' (tag
\* 'latest' when none is given), package type Image, and the caller's function
\* name, the resolved role ARN, memory size, timeout and description
\* unchanged; what create returns is the provider's response to that call.
C10_SuccessfulCreateRequest ==
    (op \in CreateOps /\ pc = "returned") =>
        /\ Cardinality(CallsTo("create_function")) = 1
        /\ \A i \in CallsTo("create_function") :
            LET p == calls[i].params IN
            /\ p.Code.ImageUri =
                   ResolvedUri \o <<":">>
                       \o (IF IsNone(args.image_tag)
                           THEN <<"l","a","t","e","s","t">>
                           ELSE Get(args.image_tag))
            /\ p.PackageType = "Image"
            /\ p.FunctionName = args.function_name
            /\ p.Role = ResolvedRoleArn
            /\ p.MemorySize = (IF IsNone(args.memory_size) THEN 128 ELSE Get(args.memory_size))
            /\ p.Timeout = (IF IsNone(args.timeout) THEN 30 ELSE Get(args.timeout))
            /\ p.Description = (IF IsNone(args.description) THEN <<>> ELSE Get(args.description))
            /\ ret = Return(calls[i].outcome.body)

\* the spec's example: URI 123.dkr.ecr.r.amazonaws.com/repo with no tag given
\* submits 123.dkr.ecr.r.amazonaws.com/repo:latest
C10_Witness ==
    /\ op = "create_lambda_from_ecr"
    /\ pc = "returned"
    /\ IsNone(args.image_tag)
    /\ \E i \in CallsTo("create_function") :
        /\ calls[i].params.Code.ImageUri =
               <<"1","2","3",".","d","k","r",".","e","c","r",".","r",".","a","m","a","z","o","n",
                 "a","w","s",".","c","o","m","/","r","e","p","o",":","l","a","t","e","s","t">>
        /\ calls[i].params.Role = CreatedRoleArn
        /\ ret.value = calls[i].outcome.body

\* the registry answered with no repository: RepositoryNotFoundException, or
\* a response whose repository list is empty or missing
NoRepository(outcome) ==
    \/ outcome = Err("RepositoryNotFoundException")
    \/ /\ outcome.kind = "ok"
       /\ ("repositories" \notin DOMAIN outcome.body \/ outcome.body.repositories = <<>>)

\* C11: in create, when the repository lookup yields no URI
\* (RepositoryNotFoundException or an empty repository list) create fails with
\* the local error 'ECR repository <name> not found' and has issued no
\* get_role, create_role, create_policy, attach_role_policy or create_function
\* call; when a role name is supplied and the role lookup reports NoSuchEntity,
\* create fails with 'IAM role <name> not found' and has issued no
\* create_function call.
C11_NotFoundBeforeDoomedCalls ==
    op \in CreateOps =>
        /\ \A i \in CallsTo("describe_repositories") :
            NoRepository(calls[i].outcome) =>
                /\ pc = "raised"
                /\ ret = Raise(ValueError(<<"ECR repository ", args.ecr_repository_name,
                                            " not found">>))
                /\ \A api \in {"get_role", "create_role", "create_policy",
                                "attach_role_policy", "create_function"} :
                    CallsTo(api) = {}
        /\ \A i \in CallsTo("get_role") :
            calls[i].outcome = Err("NoSuchEntity") =>
                /\ pc = "raised"
                /\ ret = Raise(ValueError(<<"IAM role ", Get(args.role_name), " not found">>))
                /\ CallsTo("create_function") = {}

\* the role lookup reports NoSuchEntity after the repository resolved, and
\* create has failed with the local error
C11_Witness ==
    /\ op = "create_lambda_from_ecr"
    /\ pc = "raised"
    /\ Len(calls) = 2
    /\ calls[2].api = "get_role"
    /\ calls[2].outcome = Err("NoSuchEntity")
    /\ ret.error.type = "ValueError"

(***************************************************************************)
(* Properties of the Function Manager's operations.                        *)
(***************************************************************************)
FunctionManagerOps ==
    CreateOps \cup { "update_lambda_function", "invoke_lambda_function",
                     "get_lambda_function", "list_lambda_functions",
                     "delete_lambda_function" }

\* the two failures the Function Manager translates itself: the repository
\* lookup's RepositoryNotFoundException and the role lookup's NoSuchEntity
LocallyTranslated(call) ==
    \/ call.api = "describe_repositories" /\ call.outcome.code = "RepositoryNotFoundException"
    \/ call.api = "get_role" /\ call.outcome.code = "NoSuchEntity"

\* C12: in every Function Manager operation (create, update, invoke, get,
\* list, delete), a control-plane call that fails with an error other than
\* the two locally translated NotFound codes ends the operation with that
\* same error: the failed call is the last call of the log and the operation
\* has raised the call's error unchanged; and no operation issues the same
\* call twice (no retry).
C12_ErrorsPropagateUnchanged ==
    op \in FunctionManagerOps =>
        /\ \A i \in 1..Len(calls) :
            (calls[i].outcome.kind = "error" /\ ~LocallyTranslated(calls[i])) =>
                /\ i = Len(calls)
                /\ pc = "raised"
                /\ ret = Raise(ClientError(calls[i].outcome.code))
        /\ \A i, j \in 1..Len(calls) :
            (i < j /\ calls[i].api = calls[j].api /\ calls[i].api # "sleep") =>
                calls[i].params # calls[j].params

\* an update whose image update was rejected after the repository resolved
C12_Witness ==
    /\ op = "update_lambda_function"
    /\ pc = "raised"
    /\ Len(calls) = 2
    /\ calls[2].api = "update_function_code"
    /\ calls[2].outcome = Err("ResourceNotFoundException")
    /\ ret = Raise(ClientError("ResourceNotFoundException"))

\* the caller passed none of the six configuration fields
NoConfigurationField(a) ==
    /\ IsNone(a.role_arn)
    /\ IsNone(a.memory_size)
    /\ IsNone(a.timeout)
    /\ IsNone(a.environment_variables)
    /\ IsNone(a.description)
    /\ IsNone(a.vpc_config)

\* C13: an update with a repository name and no configuration field never
\* issues a configuration update and, when it returns, has issued exactly
\* one update_function_code, carrying '<URI>:<tag>', and after it exactly one
\* get_function, whose response is what it returns; an update with neither a
\* repository name nor a configuration field issues no update call at all and
\* returns the response of get_function.
C13_ImageOnlyUpdate ==
    (op = "update_lambda_function" /\ NoConfigurationField(args)) =>
        /\ CallsTo("update_function_configuration") = {}
        /\ TruthyStr(args.ecr_repository_name) =>
            /\ Cardinality(CallsTo("update_function_code")) <= 1
            /\ pc = "returned" =>
                /\ Len(calls) = 3
                /\ calls[1].api = "describe_repositories"
                /\ calls[2].api = "update_function_code"
                /\ calls[2].params.ImageUri =
                       calls[1].outcome.body.repositories[1].repositoryUri \o <<":">>
                           \o (IF IsNone(args.image_tag)
                               THEN <<"l","a","t","e","s","t">>
                               ELSE Get(args.image_tag))
                /\ calls[3].api = "get_function"
                /\ ret = Return(calls[3].outcome.body)
        /\ ~TruthyStr(args.ecr_repository_name) =>
            /\ CallsTo("update_function_code") = {}
            /\ CallsTo("describe_repositories") = {}
            /\ pc = "returned" =>
                /\ Len(calls) = 1
                /\ calls[1].api = "get_function"
                /\ ret = Return(calls[1].outcome.body)

\* the image-only update of the spec's scenario, returned
C13_Witness ==
    /\ op = "update_lambda_function"
    /\ pc = "returned"
    /\ NoConfigurationField(args)
    /\ TruthyStr(args.ecr_repository_name)
    /\ Cardinality(CallsTo("update_function_code")) = 1
    /\ ret = Return(calls[Len(calls)].outcome.body)

\* C14: in an update that supplies a repository name and a configuration
\* field, every update_function_configuration call comes after an
\* update_function_code call that returned successfully, itself after a
\* repository lookup that resolved; no configuration update is issued once
\* the repository lookup or the image update has failed.
C14_ImageBeforeConfiguration ==
    (op = "update_lambda_function" /\ TruthyStr(args.ecr_repository_name)) =>
        /\ \A j \in CallsTo("update_function_configuration") :
            \E h, i \in 1..(j - 1) :
                /\ h < i
                /\ calls[h].api = "describe_repositories"
                /\ calls[h].outcome.kind = "ok"
                /\ calls[i].api = "update_function_code"
                /\ calls[i].outcome.kind = "ok"
        /\ (\/ \E i \in CallsTo("describe_repositories") :
                  calls[i].outcome.kind = "error" \/ NoRepository(calls[i].outcome)
            \/ \E i \in CallsTo("update_function_code") : calls[i].outcome.kind = "error")
            => CallsTo("update_function_configuration") = {}

\* an update of image and memory size that returned the configuration
\* update's response
C14_Witness ==
    /\ op = "update_lambda_function"
    /\ pc = "returned"
    /\ TruthyStr(args.ecr_repository_name)
    /\ args.memory_size = Some(256)
    /\ Len(calls) = 3
    /\ calls[2].api = "update_function_code"
    /\ calls[3].api = "update_function_configuration"
    /\ ret = Return(calls[3].outcome.body)

\* the configuration fields the caller passed, as update_function_configuration
\* takes them
SuppliedConfiguration(a) ==
    (IF ~IsNone(a.role_arn) THEN [Role |-> Get(a.role_arn)] ELSE <<>>)
    @@ (IF ~IsNone(a.memory_size) THEN [MemorySize |-> Get(a.memory_size)] ELSE <<>>)
    @@ (IF ~IsNone(a.timeout) THEN [Timeout |-> Get(a.timeout)] ELSE <<>>)
    @@ (IF ~IsNone(a.environment_variables)
        THEN [Environment |-> [Variables |-> Get(a.environment_variables)]]
        ELSE <<>>)
    @@ (IF ~IsNone(a.description) THEN [Description |-> Get(a.description)] ELSE <<>>)
    @@ (IF ~IsNone(a.vpc_config) THEN [VpcConfig |-> Get(a.vpc_config)] ELSE <<>>)

\* C15: an update that returns has issued a configuration update exactly
\* when the caller supplied at least one of role, memory size, timeout,
\* environment variables, description and network-placement configuration
\* (an empty description, an empty environment mapping and a zero memory size
\* or timeout count as supplied), and that call carries the function name and
\* exactly the supplied fields with the supplied values.
C15_ConfigurationCarriesSuppliedFields ==
    (op = "update_lambda_function" /\ pc = "returned") =>
        /\ (CallsTo("update_function_configuration") # {}) <=> ~NoConfigurationField(args)
        /\ \A i \in CallsTo("update_function_configuration") :
            /\ DOMAIN calls[i].params =
                   {"FunctionName"} \cup DOMAIN SuppliedConfiguration(args)
            /\ calls[i].params.FunctionName = args.function_name
            /\ \A k \in DOMAIN SuppliedConfiguration(args) :
                calls[i].params[k] = SuppliedConfiguration(args)[k]

\* C20: every invoke call carries FunctionName and InvocationType
\* ('RequestResponse' when the caller gives none), and carries Payload, the
\* bytes of the JSON serialization of the caller's payload, exactly when the
\* caller supplied a payload (an empty mapping included).
C20_InvokeRequest ==
    op = "invoke_lambda_function" =>
        \A i \in CallsTo("invoke") :
            LET p == calls[i].params IN
            /\ p.FunctionName = args.function_name
            /\ p.InvocationType =
                   (IF IsNone(args.invocation_type)
                    THEN "RequestResponse"
                    ELSE Get(args.invocation_type))
            /\ ("Payload" \in DOMAIN p) <=> ~IsNone(args.payload)
            /\ "Payload" \in DOMAIN p =>
                   p.Payload = encode(json_dumps(Get(args.payload)))

(***************************************************************************)
(* Properties of the Role Provisioner.                                     *)
(***************************************************************************)
\* a run of delete_role_and_policies, so far without a failed call
TeardownErrorFree ==
    /\ op = "delete_role_and_policies"
    /\ \A i \in 1..Len(calls) : calls[i].outcome.kind = "ok"

\* the calls of the teardown that change the account
TeardownCalls ==
    CallsTo("detach_role_policy") \cup CallsTo("delete_policy")
        \cup CallsTo("delete_role_policy") \cup CallsTo("delete_role")

\* each deleted policy was detached before, and delete_role, once issued, is
\* the last call: after every detach, delete_policy and delete_role_policy
DetachBeforeDeleteAndRoleLast ==
    /\ \A j \in CallsTo("delete_policy") :
        \E i \in CallsTo("detach_role_policy") :
            i < j /\ calls[i].params.PolicyArn = calls[j].params.PolicyArn
    /\ \A k \in CallsTo("delete_role") : k = Len(calls) /\ pc = "returned"
    /\ pc = "returned" => calls[Len(calls)].api = "delete_role"

\* the four phases of the claim
Phase(api) ==
    CASE api = "detach_role_policy" -> 1
      [] api = "delete_policy" -> 2
      [] api = "delete_role_policy" -> 3
      [] api = "delete_role" -> 4

\* C16 as stated: in every error-free run of delete_role_and_policies each
\* attached policy is detached before it is deleted, every detach, policy
\* deletion and inline-policy deletion precedes delete_role, which is the
\* last call, and the calls come in four phases in this order: the detaches
\* of the attached policies, the deletions of the non-baseline ones, the
\* deletions of the inline policies, the deletion of the role.
C16_TeardownPhases ==
    TeardownErrorFree =>
        /\ DetachBeforeDeleteAndRoleLast
        /\ \A i, j \in TeardownCalls :
            i < j => Phase(calls[i].api) <= Phase(calls[j].api)

\* the phases the code has: the attached policies, then the inline ones, then
\* the role
MergedPhase(api) ==
    CASE api \in {"detach_role_policy", "delete_policy"} -> 1
      [] api = "delete_role_policy" -> 2
      [] api = "delete_role" -> 3

\* C16, amended: in every error-free run of delete_role_and_policies each
\* attached policy is detached before it is deleted, and delete_role comes
\* after every detach, policy deletion and inline-policy deletion and is the
\* last call; the attached policies are handled one after the other, a
\* non-baseline one deleted by the call right after its detach (so a policy
\* deletion may precede the detach of a later policy); all calls on attached
\* policies precede the inline-policy deletions, which precede delete_role.
C16_TeardownOrder ==
    TeardownErrorFree =>
        /\ DetachBeforeDeleteAndRoleLast
        /\ \A j \in CallsTo("delete_policy") :
            /\ j > 1
            /\ calls[j - 1].api = "detach_role_policy"
            /\ calls[j - 1].params.PolicyArn = calls[j].params.PolicyArn
        /\ \A i, j \in TeardownCalls :
            i < j => MergedPhase(calls[i].api) <= MergedPhase(calls[j].api)

\* a finished teardown that deleted one policy before it detached the next
\* and then deleted an inline policy and the role
C16_Witness ==
    /\ TeardownErrorFree
    /\ pc = "returned"
    /\ \E i \in CallsTo("delete_policy") :
        \E j \in CallsTo("detach_role_policy") : i < j
    /\ CallsTo("delete_role_policy") # {}

\* the policies attached to the role and its inline policies, as the two
\* listings of the run answered
ListedAttached ==
    UNION { LET body == calls[i].outcome.body IN
            IF "AttachedPolicies" \in DOMAIN body
            THEN {body.AttachedPolicies[k].PolicyArn : k \in 1..Len(body.AttachedPolicies)}
            ELSE {} :
            i \in CallsTo("list_attached_role_policies") }
ListedInline ==
    UNION { LET body == calls[i].outcome.body IN
            IF "PolicyNames" \in DOMAIN body
            THEN {body.PolicyNames[k] : k \in 1..Len(body.PolicyNames)}
            ELSE {} :
            i \in CallsTo("list_role_policies") }

\* what is left on the role: the listed policies less those a successful call
\* took away
AttachedLeft ==
    ListedAttached \ {calls[i].params.PolicyArn : i \in CallsTo("detach_role_policy")}
InlineLeft ==
    ListedInline \ {calls[i].params.PolicyName : i \in CallsTo("delete_role_policy")}

\* the ARN is outside the managed namespace arn:aws:iam::aws:policy/
OutsideManagedNamespace(arn) ==
    LET namespace == <<"a","r","n",":","a","w","s",":","i","a","m",":",":","a","w","s",":","p","o","l","i","c","y","/">>
    IN  ~(Len(arn) >= 24 /\ \A k \in 1..24 : arn[k] = namespace[k])

\* C17: an error-free run of delete_role_and_policies on a role with the
\* attached policies A and the inline policies I has called
\* detach_role_policy exactly once for every policy of A, delete_policy
\* exactly once for every policy of A whose ARN is outside
\* 'arn:aws:iam::aws:policy/' and never for one inside, delete_role_policy
\* exactly once for every name of I, and delete_role exactly once; afterwards
\* the role has no attached and no inline policy left.
C17_TeardownCallCounts ==
    (TeardownErrorFree /\ pc = "returned") =>
        /\ \A a \in ListedAttached :
            /\ Cardinality({i \in CallsTo("detach_role_policy") :
                                calls[i].params.PolicyArn = a}) = 1
            /\ Cardinality({i \in CallsTo("delete_policy") :
                                calls[i].params.PolicyArn = a})
                   = (IF OutsideManagedNamespace(a) THEN 1 ELSE 0)
        /\ \A i \in CallsTo("detach_role_policy") \cup CallsTo("delete_policy") :
            calls[i].params.PolicyArn \in ListedAttached
        /\ \A n \in ListedInline :
            Cardinality({i \in CallsTo("delete_role_policy") :
                            calls[i].params.PolicyName = n}) = 1
        /\ \A i \in CallsTo("delete_role_policy") :
            calls[i].params.PolicyName \in ListedInline
        /\ \A i \in TeardownCalls \ CallsTo("delete_policy") :
            calls[i].params.RoleName = args.role_name
        /\ Cardinality(CallsTo("delete_role")) = 1
        /\ AttachedLeft = {}
        /\ InlineLeft = {}

\* the teardown of a role with the baseline policy, a policy of the account
\* and two inline policies
C17_Witness ==
    /\ TeardownErrorFree
    /\ pc = "returned"
    /\ ListedAttached = {BasicExecutionPolicyArn, CreatedPolicyArn}
    /\ ListedInline = {"inline-policy-1", "inline-policy-2"}
    /\ Cardinality(CallsTo("delete_policy")) = 1

\* C18: create_lambda_role submits to create_role a trust document with a
\* single statement, Allow, whose only principal is the service
\* lambda.amazonaws.com and whose action is sts:AssumeRole; it then attaches
\* exactly one policy, the baseline AWSLambdaBasicExecutionRole, and returns
\* the ARN of the create_role response; when create_role is rejected the
\* error propagates and attach_role_policy is never called.
C18_CreateLambdaRole ==
    op = "create_lambda_role" =>
        /\ \A i \in CallsTo("create_role") :
            LET document == calls[i].params.AssumeRolePolicyDocument.json IN
            /\ calls[i].params.RoleName = args.role_name
            /\ Len(document.Statement) = 1
            /\ document.Statement[1].Effect = "Allow"
            /\ document.Statement[1].Principal = [Service |-> "lambda.amazonaws.com"]
            /\ document.Statement[1].Action = "sts:AssumeRole"
            /\ calls[i].outcome.kind = "error" =>
                /\ pc = "raised"
                /\ ret = Raise(ClientError(calls[i].outcome.code))
                /\ CallsTo("attach_role_policy") = {}
        /\ \A j \in CallsTo("attach_role_policy") :
            /\ j = 2
            /\ calls[1].api = "create_role"
            /\ calls[1].outcome.kind = "ok"
            /\ calls[j].params.RoleName = args.role_name
            /\ calls[j].params.PolicyArn =
                   <<"a","r","n",":","a","w","s",":","i","a","m",":",":","a","w","s",":","p","o","l","i","c","y","/","s","e","r","v","i","c","e","-","r","o","l","e","/","A","W","S","L","a","m","b","d","a","B","a","s","i","c","E","x","e","c","u","t","i","o","n","R","o","l","e">>
        /\ pc = "returned" =>
            /\ Len(calls) = 2
            /\ calls[2].api = "attach_role_policy"
            /\ ret = Return(calls[1].outcome.body.Role.Arn)

\* create_lambda_role returned the ARN of the role it created and attached
\* the baseline policy to
C18_Witness ==
    /\ op = "create_lambda_role"
    /\ pc = "returned"
    /\ ret = Return(CreatedRoleArn)
    /\ calls[2].params.PolicyArn = BasicExecutionPolicyArn

\* C19: any two invocations of create_lambda_role_with_s3_access, in one
\* process run or in different ones, the second after a failed first one
\* included, generate distinct role names 'lambda-s3-access-role-<timestamp>':
\* no two create_role calls of the account's log carry the same RoleName.
C19_DistinctRoleNames ==
    \A i, j \in CallsTo("create_role") :
        i < j => calls[i].params.RoleName # calls[j].params.RoleName

(***************************************************************************)
(* Properties of invoke's response and of list.                            *)
(***************************************************************************)
\* what the claim expects as ResponsePayload for the body texts of the model:
\* the parsed value of a JSON document, else the text itself
ExpectedResponsePayload(text) ==
    CASE text = <<"n","u","l","l">> -> PyNone
      [] text = <<"{","}">> -> PyDict(<<>>)
      [] text = <<"4","2">> -> PyInt(42)
      [] text = <<"\"","o","k","\"">> -> PyStr(<<"o","k">>)
      [] OTHER -> PyStr(text)

\* C21: whenever the response of invoke carries a streamed result body,
\* invoke_lambda_function returns: the returned response holds every field of
\* the provider's response unchanged and a 'ResponsePayload' that is the
\* parsed value when the UTF-8 decoded body is valid JSON and the raw decoded
\* text otherwise; a body that is not valid JSON never makes the operation
\* fail.
C21_DecodedResult ==
    (/\ op = "invoke_lambda_function"
     /\ CallsTo("invoke") # {}
     /\ calls[1].outcome.kind = "ok"
     /\ "Payload" \in DOMAIN calls[1].outcome.body) =>
        LET response == calls[1].outcome.body IN
        /\ pc = "returned"
        /\ \A k \in DOMAIN response : k \in DOMAIN ret.value /\ ret.value[k] = response[k]
        /\ "ResponsePayload" \in DOMAIN ret.value
        /\ "utf8" \in DOMAIN response.Payload
        /\ ret.value.ResponsePayload = ExpectedResponsePayload(response.Payload.utf8)

\* the 'Functions' entries of the first n pages of the log, in page order
RECURSIVE PagesConcat(_)
PagesConcat(n) ==
    IF n = 0 THEN <<>>
    ELSE PagesConcat(n - 1)
         \o (IF "Functions" \in DOMAIN calls[n].outcome.body
             THEN calls[n].outcome.body.Functions
             ELSE <<>>)

\* C22: list_lambda_functions(max_items) sends max_items (50 when none is
\* given) as the paging bound of every list_functions request, consumes pages
\* until one comes without a continuation marker, and returns the
\* concatenation, in page order and in-page order, of every page's
\* 'Functions' entries (a page without 'Functions' adds nothing); the
\* returned list never has more than max_items entries.
C22_ListResult ==
    (op = "list_lambda_functions" /\ pc = "returned") =>
        LET max_items == IF IsNone(args.max_items) THEN 50 ELSE Get(args.max_items) IN
        /\ \A i \in 1..Len(calls) :
            /\ calls[i].api = "list_functions"
            /\ calls[i].params.MaxItems = max_items
            /\ ("NextMarker" \in DOMAIN calls[i].outcome.body) <=> (i < Len(calls))
        /\ ret = Return(PagesConcat(Len(calls)))
        /\ Len(ret.value) <= max_items

(***************************************************************************)
(* Properties of the image reference.                                      *)
(***************************************************************************)
\* an image reference split at its tag separator, the last colon
ParseImageReference(reference) ==
    LET colons == {i \in 1..Len(reference) : reference[i] = ":"}
        last == CHOOSE i \in colons : \A k \in colons : k <= i
    IN  <<SubSeq(reference, 1, last - 1), SubSeq(reference, last + 1, Len(reference))>>

\* the image references create and update have submitted
SubmittedImageReferences ==
    {calls[i].params.Code.ImageUri : i \in CallsTo("create_function")}
        \cup {calls[i].params.ImageUri : i \in CallsTo("update_function_code")}

\* C23: for every repository URI u the registry resolved and every image tag t
\* passed to create or update (the default 'latest' when none is passed), the
\* image reference submitted, u + ':' + t, parses back, split at the tag
\* separator, to exactly the pair (u, t).
C23_ImageReferenceRoundTrip ==
    (op \in CreateOps \cup {"update_lambda_function"}) =>
        \A reference \in SubmittedImageReferences :
            ParseImageReference(reference) =
                << ResolvedUri,
                   IF IsNone(args.image_tag)
                   THEN <<"l","a","t","e","s","t">>
                   ELSE Get(args.image_tag) >>

(***************************************************************************)
(* Properties of the command surface.                                      *)
(***************************************************************************)
\* the JSON documents among the texts of the model
ValidJsonText(text) == text \in { <<"{","}">>, <<"4","2">> }

\* the texts the subcommand takes: create environment variables and tags,
\* update environment variables, invoke the payload
TextsTaken(a) ==
    CASE a.action = "create" -> {a.env_vars, a.tags}
      [] a.action = "update" -> {a.env_vars}
      [] a.action = "invoke" -> {a.payload}
      [] OTHER -> {}

\* a text was given (the option present and not empty) and is no JSON
Malformed(text) == ~IsNone(text) /\ Get(text) # <<>> /\ ~ValidJsonText(Get(text))

\* C24: a subcommand (create, update, delete, invoke, get, list) run with
\* well-formed arguments reaches its Function Manager operation, the keyword
\* arguments the CLI passes being accepted by LambdaCreator and by
\* create_lambda_function: a run that has ended, with no failed remote call,
\* has exited with code zero and logged no error.
C24_SubcommandReachesOperation ==
    (/\ op = "main"
     /\ pc = "exited"
     /\ \A text \in TextsTaken(args) : ~Malformed(text)
     /\ \A i \in 1..Len(calls) : calls[i].outcome.kind = "ok") =>
        /\ ret = SystemExit(0)
        /\ locals.errors = <<>>

C26_ErrorsExitNonZero ==
    (op = "main" /\ pc = "exited") =>
        /\ ret.kind = "exit"
        /\ locals.errors # <<>> => ret.code # 0
        /\ ret.code = 0 => locals.errors = <<>>

\* get ended with exit code 1 after the library call raised
C26_Witness ==
    /\ op = "main"
    /\ pc = "exited"
    /\ args.action = "get"
    /\ locals.errors = <<"Error: TypeError">>
    /\ ret = SystemExit(1)

(***************************************************************************)
(* Provisioning order and the settling delay.                              *)
(***************************************************************************)
\* the operations of the calls in the log, in order
ApisCalled == [i \in 1..Len(calls) |-> calls[i].api]

IsPrefix(s, t) == Len(s) <= Len(t) /\ \A i \in 1..Len(s) : s[i] = t[i]

ProvisioningSteps ==
    << "create_role", "attach_role_policy", "create_policy", "attach_role_policy", "sleep" >>

\* the log holds the four provisioning calls, all successful, baseline
\* policy first and the created storage policy second, from position first
ProvisionedFrom(first) ==
    /\ Len(calls) >= first + 3
    /\ \A i \in first..(first + 3) :
          /\ calls[i].api = ProvisioningSteps[i - first + 1]
          /\ calls[i].outcome.kind = "ok"
    /\ calls[first + 1].params.PolicyArn = BasicExecutionPolicyArn
    /\ calls[first + 3].params.PolicyArn = calls[first + 2].outcome.body.Policy.Arn

\* C27: create without a role name issues create_role, the baseline
\* attach, create_policy, the storage-policy attach, one delay of 10 and
\* then create_function, never create_function before the delay; create
\* with a role name issues none of the provisioning calls and no delay;
\* create_lambda_role_with_s3_access delays by 10 exactly once, after both
\* provisioning steps succeeded and before it returns, and not at all when
\* a step failed.
C27_ProvisioningOrderAndDelay ==
    /\ (op \in CreateOps /\ ~TruthyStr(locals.role_name)) =>
          /\ IsPrefix(ApisCalled,
                      <<"describe_repositories">> \o ProvisioningSteps \o <<"create_function">>)
          /\ Cardinality(CallsTo("create_function")) = 1 =>
                /\ ProvisionedFrom(2)
                /\ calls[6].api = "sleep" /\ calls[6].params = 10
                /\ Cardinality(CallsTo("sleep")) = 1
    /\ (op \in CreateOps /\ TruthyStr(locals.role_name)) =>
          \A i \in 1..Len(calls) :
              calls[i].api \in {"describe_repositories", "get_role", "create_function"}
    /\ op = "create_lambda_role_with_s3_access" =>
          /\ IsPrefix(ApisCalled, ProvisioningSteps)
          /\ pc = "returned" =>
                /\ ProvisionedFrom(1)
                /\ Len(calls) = 5
                /\ calls[5].api = "sleep" /\ calls[5].params = 10
          /\ Cardinality(CallsTo("sleep")) = 1 => ProvisionedFrom(1)
          /\ pc = "raised" => CallsTo("sleep") = {}

\* create without a role name returned: all six steps are in the log
C27_Witness ==
    /\ op = "create_lambda_function"
    /\ pc = "returned"
    /\ ~TruthyStr(locals.role_name)
    /\ ApisCalled = <<"describe_repositories">> \o ProvisioningSteps \o <<"create_function">>

(***************************************************************************)
(* No compensation.                                                        *)
(***************************************************************************)
\* the calls that would undo a provisioning step
CompensatingCalls ==
    { "detach_role_policy", "delete_policy", "delete_role", "delete_role_policy",
      "delete_function" }

\* C28: in create and in update a failed call is the last call: nothing
\* is issued after it, create issues no detach_role_policy, delete_policy
\* or delete_role at all, and update issues no call after a failed
\* configuration update, so the image update before it is not reverted.
C28_NoCompensation ==
    (op \in CreateOps \cup {"update_lambda_function"}) =>
        /\ \A i \in 1..Len(calls) : calls[i].api \notin CompensatingCalls
        /\ \A i \in 1..Len(calls) :
              calls[i].outcome.kind = "error" => (i = Len(calls) /\ pc = "raised")
        /\ op = "update_lambda_function" =>
              Cardinality(CallsTo("update_function_code")) <= 1

\* create with a provisioned role whose create_function was rejected
C28_Witness ==
    /\ op \in CreateOps
    /\ pc = "raised"
    /\ ProvisionedFrom(2)
    /\ Len(calls) = 7
    /\ calls[7].api = "create_function"
    /\ calls[7].outcome.kind = "error"

(***************************************************************************)
(* Teardown stops at the first failed call.                                *)
(***************************************************************************)
\* C29: in delete_role_and_policies a failed identity call (a listing, a
\* detach, a policy deletion, an inline deletion, the role deletion) is
\* the last call: the operation has raised that error, no policy is
\* detached or deleted after it, delete_role is not issued after a failure
\* of another call, and nothing done before is undone (no attach, create
\* or put call is ever issued).
C29_TeardownStopsAtFirstFailure ==
    op = "delete_role_and_policies" =>
        /\ \A i \in 1..Len(calls) :
              calls[i].outcome.kind = "error" =>
                  /\ i = Len(calls)
                  /\ pc = "raised"
                  /\ ret = Raise(ClientError(calls[i].outcome.code))
                  /\ calls[i].api # "delete_role" => CallsTo("delete_role") = {}
        /\ \A i \in 1..Len(calls) :
              calls[i].api \in { "list_attached_role_policies", "detach_role_policy",
                                 "delete_policy", "list_role_policies",
                                 "delete_role_policy", "delete_role" }
        /\ pc = "raised" => calls[Len(calls)].outcome.kind = "error"

\* the second attached policy could not be detached, after the first was
C29_Witness ==
    /\ op = "delete_role_and_policies"
    /\ pc = "raised"
    /\ Len(calls) >= 3
    /\ calls[2].api = "detach_role_policy"
    /\ calls[2].outcome.kind = "ok"
    /\ calls[Len(calls)].api = "detach_role_policy"
    /\ calls[Len(calls)].outcome.kind = "error"
    /\ Len(locals.attached) = 2
    /\ locals.i = 2

(***************************************************************************)
(* The generated role name against the role name rule.                     *)
(***************************************************************************)
\* C30: for every function name validate_function_name accepts, the role
\* name '<function name>-role-<whole-second timestamp>' that create
\* generates is accepted by validate_role_name: it has at most 64
\* characters, all of them role-name characters.
C30_GeneratedRoleNameValid ==
    (op = "validate_role_name" /\ pc = "returned") =>
        /\ ret = Return(TRUE)
        /\ Len(locals.generated_role_name) <= 64
        /\ \A i \in 1..Len(locals.generated_role_name) :
              locals.generated_role_name[i] \in RoleNameChars









====